---- MODULE Spec2Model ----
(***************************************************************************)
(* The extension (plugin) host process of the workbench:                   *)
(* src/src/vs/workbench/node/pluginHostProcess.ts.  The file holds the     *)
(* process entry point (lines 1-91) and PluginHostMain (lines 92-336).     *)
(*                                                                         *)
(* Strings the code inspects character by character (activation events,   *)
(* file names) are sequences of one-character strings, so that the prefix  *)
(* test, substr and concatenation of the code are computed and not         *)
(* assumed.  Install locations are pairs <<source, index>>.                *)
(***************************************************************************)
EXTENDS Integers, Sequences, FiniteSets, Bags, TLC

\* ------------------------------------------------------------------ bounds

\* Longest descriptor list one scan returns in the lifecycle specification.
MaxScan == 1

\* Longest descriptor list one scan returns in the merge specification.
MaxMerge == 2

\* The most messages the parent sends
MaxMessages == 3

\* The most errors that nothing catches
MaxErrors == 2

\* The most messages the IPC layer sends
MaxSends == 252

\* The most breakpoints, exception breakpoints or watch expressions
MaxModel == 2

\* The largest maxResults a search is configured with
MaxLimit == 2

\* The most walks one walker is asked for
MaxWalks == 2

\* The most matches findMatches gives
MaxMatches == 2

\* The most calls of the methods of one output channel
MaxCalls == 4

\* The most UPDATED events of the configuration service
MaxUpdates == 2

\* ------------------------------------------------------- program constants

\* setTimeout(() => process.exit(), 0) on the runner error path.
ERROR_DELAY == 0

\* The exit after the callback scheduled without a grace delay.
NoGraceDelay == ERROR_DELAY

\* setTimeout(() => process.exit(), 800) after the runner's callback.
GRACE_DELAY == 800

\* process.exit() without an argument ends the process with the success code.
EXIT_CODE == 0

\* The code the process ends with on an exception no listener gets
UNCAUGHT_EXIT_CODE == 1

\* stats.length >= 250
WARN_COUNT == 250

\* ----------------------------------------------------------------- strings

\* 'workspaceContains:'
WORKSPACE_CONTAINS ==
    <<"w","o","r","k","s","p","a","c","e","C","o","n","t","a","i","n","s",":">>

\* '*'
STAR == <<"*">>

FileA == <<"a">>
FileB == <<"b">>
EmptyName == <<>>

EvA == WORKSPACE_CONTAINS \o FileA
EvB == WORKSPACE_CONTAINS \o FileB
\* 'workspaceContains:' with nothing after the colon
EvEmpty == WORKSPACE_CONTAINS
\* the prefix not at the start of the string
EvOther == <<"x">> \o WORKSPACE_CONTAINS \o FileA

\* /^workspaceContains:/.test(s)
TestWorkspaceContains(s) ==
    /\ Len(s) >= Len(WORKSPACE_CONTAINS)
    /\ SubSeq(s, 1, Len(WORKSPACE_CONTAINS)) = WORKSPACE_CONTAINS

\* s.substr('workspaceContains:'.length)
SubstrAfterPrefix(s) == SubSeq(s, Len(WORKSPACE_CONTAINS) + 1, Len(s))

\* 'workspaceContains:' + existingFileName
ActivationEventOf(fileName) == WORKSPACE_CONTAINS \o fileName

\* ------------------------------------------------------------- descriptors

Ids == {"a", "b"}
MergeIds == {"a", "b", "c"}

\* The activationEvents a manifest may declare in the lifecycle
\* specification: one event, or a list that repeats an event and holds
\* events the registry loop must skip.  A manifest without the field is
\* the empty list (both make the loop add nothing): the merge
\* specification's descriptors.
EventChoices ==
    { <<EvA>>, <<STAR, EvB, EvOther, EvA, EvEmpty, EvB>> }

PluginDescription(src, i, id, events) ==
    [id |-> id, extensionFolderPath |-> <<src, i>>, activationEvents |-> events]

\* Every list of at most max descriptors a scan of one source may return:
\* each folder of the source has its own install location; ids may repeat.
ScanLists(src, max, ids, events) ==
    UNION { { [i \in 1..n |-> PluginDescription(src, i, f[i][1], f[i][2])] :
                f \in [1..n -> ids \X events] } : n \in 0..max }

\* ---------------------------------------------------------------- messages

\* PluginsMessageCollector: collector.error / warn / info (source, message)
Message(type, text) == [type |-> type, source |-> "", message |-> text]

WarnOverwrite(old, new) ==
    Message("warn", <<"Overwriting extension ", old.extensionFolderPath,
                      " with ", new.extensionFolderPath>>)

InfoDevelopment(d) ==
    Message("info", <<"Loading development extension at ", d.extensionFolderPath>>)

ScanError == <<"scan failed">>

ErrorMessage(err) == Message("error", err)

\* ------------------------------------------------------ resultingPluginsMap

\* A JavaScript object used as a map: keys in insertion order, an
\* assignment to a key it holds keeps the key's place.
HasOwnProperty(map, id) == \E i \in 1..Len(map) : map[i].id = id

MapGet(map, id) == map[CHOOSE i \in 1..Len(map) : map[i].id = id]

\* An assignment that keeps the entry the map already holds.
MapSetKeepsFirst(map, d) ==
    IF HasOwnProperty(map, d.id) THEN map ELSE Append(map, d)

MapSet(map, d) ==
    IF HasOwnProperty(map, d.id)
    THEN [i \in 1..Len(map) |-> IF map[i].id = d.id THEN d ELSE map[i]]
    ELSE Append(map, d)

\* builtinPlugins.forEach: no test, no message
RECURSIVE MergeBuiltin(_, _)
MergeBuiltin(st, list) ==
    IF list = <<>> THEN st
    ELSE MergeBuiltin([map |-> MapSet(st.map, Head(list)), msgs |-> st.msgs],
                      Tail(list))

UserStep(st, d) ==
    [map  |-> MapSet(st.map, d),
     msgs |-> IF HasOwnProperty(st.map, d.id)
              THEN Append(st.msgs, WarnOverwrite(MapGet(st.map, d.id), d))
              ELSE st.msgs]

\* userPlugins.forEach: a warning when the id is already in the map
RECURSIVE MergeUser(_, _)
MergeUser(st, list) ==
    IF list = <<>> THEN st ELSE MergeUser(UserStep(st, Head(list)), Tail(list))

\* A development step that announces the descriptor only when it
\* overwrites nothing.
DevStepQuietOverwrite(st, d) ==
    [map  |-> MapSet(st.map, d),
     msgs |-> IF HasOwnProperty(st.map, d.id)
              THEN Append(st.msgs, WarnOverwrite(MapGet(st.map, d.id), d))
              ELSE Append(st.msgs, InfoDevelopment(d))]

DevStep(st, d) ==
    LET informed == Append(st.msgs, InfoDevelopment(d))
    IN  [map  |-> MapSet(st.map, d),
         msgs |-> IF HasOwnProperty(st.map, d.id)
                  THEN Append(informed, WarnOverwrite(MapGet(st.map, d.id), d))
                  ELSE informed]

\* extensionDevPlugins.forEach: an info always, a warning on an overwrite
RECURSIVE MergeDev(_, _)
MergeDev(st, list) ==
    IF list = <<>> THEN st ELSE MergeDev(DevStep(st, Head(list)), Tail(list))

\* The callback of TPromise.join([builtin, user, developed]).then:
\* the merged map and the messages it collected.
MergePlugins(builtin, user, dev) ==
    MergeDev(MergeUser(MergeBuiltin([map |-> <<>>, msgs |-> <<>>], builtin),
                       user),
             dev)

\* ------------------------------------------------------------- test runner

\* What require(pluginTestsPath) may meet: the load throws; it yields a
\* falsy export; an object whose run is no function; or a runner whose run
\* throws, never calls back, or calls back without / with an error.
RunnerModules ==
    { [requireThrows |-> TRUE,  truthy |-> FALSE, runIsFunction |-> FALSE, run |-> "none"],
      [requireThrows |-> FALSE, truthy |-> FALSE, runIsFunction |-> FALSE, run |-> "none"],
      [requireThrows |-> FALSE, truthy |-> TRUE,  runIsFunction |-> FALSE, run |-> "none"] }
    \cup { [requireThrows |-> FALSE, truthy |-> TRUE, runIsFunction |-> TRUE, run |-> b] :
             b \in {"throws", "silent", "ok", "error"} }

NoRunner ==
    [requireThrows |-> FALSE, truthy |-> FALSE, runIsFunction |-> FALSE, run |-> "unloaded"]

\* The test without typeof testRunner.run === 'function'.
FollowsSpecUntyped(m) == (~m.requireThrows) /\ m.truthy

\* testRunner && typeof testRunner.run === 'function'
FollowsSpec(m) == (~m.requireThrows) /\ m.truthy /\ m.runIsFunction

RequireErrorText == <<"Error: Cannot find module">>
InvalidRunnerText ==
    <<"Path ", "pluginTestsPath", " does not point to a valid extension test runner.">>
RunThrownText == <<"Error: thrown by run">>
RunErrorText == <<"Error: reported by run">>
ActivationErrorText == <<"Error: activation failed">>

\* requireError ? requireError.toString() : nls.localize('pluginTestError', ...)
RunnerErrorText(m) == IF m.requireThrows THEN RequireErrorText ELSE InvalidRunnerText

\* The test with && in place of ||.
TestsNotConfiguredBoth(e) == (~e.pluginTestsPath) /\ (~e.pluginDevelopmentPath)

\* !env.pluginTestsPath || !env.pluginDevelopmentPath
TestsNotConfigured(e) == (~e.pluginTestsPath) \/ (~e.pluginDevelopmentPath)

\* --------------------------------------------------------- eager activation

Request(event) == [event |-> event, state |-> "pending"]

\* A list of the file names instead of a map keyed by file name.
AddKeyAgain(keys, k) == Append(keys, k)

\* desiredFilesMap[fileName] = true: the keys, in insertion order
AddKey(keys, k) ==
    IF \E i \in 1..Len(keys) : keys[i] = k THEN keys ELSE Append(keys, k)

\* for (i = 0; i < activationEvents.length; i++) of one descriptor
RECURSIVE DesiredOfEvents(_, _)
DesiredOfEvents(keys, events) ==
    IF events = <<>> THEN keys
    ELSE DesiredOfEvents(
            IF TestWorkspaceContains(Head(events))
            THEN AddKey(keys, SubstrAfterPrefix(Head(events)))
            ELSE keys,
            Tail(events))

\* PluginsRegistry.getAllPluginDescriptions().forEach(...)
RECURSIVE DesiredFiles(_, _)
DesiredFiles(keys, descs) ==
    IF descs = <<>> THEN keys
    ELSE DesiredFiles(DesiredOfEvents(keys, Head(descs).activationEvents),
                      Tail(descs))

NullResult == [isNull |-> TRUE, value |-> <<>>]
Result(v) == [isNull |-> FALSE, value |-> v]

\* pfs.fileExistsWithResult(paths.join(folderPath, fileName), fileName):
\* the file name when a file of that name is at the root, nothing otherwise.
\* The empty name joins to the root itself, which is a folder and no file.
FileExistsWithResult(files, fileName) ==
    IF fileName \in files THEN Result(fileName) ELSE NullResult

\* !existingFileName: null, undefined and the empty string are falsy
Falsy(r) == r.isNull \/ r.value = <<>>

\* fileNames.forEach(existingFileName => ...): one request per truthy result
RECURSIVE RequestsOf(_, _)
RequestsOf(results, i) ==
    IF i > Len(results) THEN <<>>
    ELSE (IF Falsy(results[i]) THEN <<>>
          ELSE <<Request(ActivationEventOf(results[i].value))>>)
         \o RequestsOf(results, i + 1)

\* --------------------------------------------------------- the handshake

\* The signals of lines 68 and 74, as process.send gets them
Signal(name) == [signal |-> name]

READY == Signal("ready")

INITIALIZED == Signal("initialized")

\* The k-th message the parent puts on the channel; msg.parentPid is the
\* parent's, whatever the message.
ParentMessage(k) == [id |-> k]

\* The k-th message the IPC layer hands to the callback of createIPC:
\* strings of two lengths, by turns.
Data(k) == [seq |-> k, length |-> 1 + (k % 2)]

\* What connectToRenderer() and connectToSharedProcess() call when the
\* module is loaded, in order.
ModuleCalls == <<"once(message)", "send(ready)", "connect">>

\* The same with 'initialized' sent as the first thing the handler does.
InitHandlerCallsSignalFirst ==
    <<"send(initialized)", "createIPC", "on(message)", "on(unhandledRejection)",
      "on(uncaughtException)", "setInterval(5000)", "setInterval(1000)", "c">>

\* What the handler of the first message calls, in order.
InitHandlerCalls ==
    <<"createIPC", "on(message)", "on(unhandledRejection)",
      "on(uncaughtException)", "setInterval(5000)", "setInterval(1000)",
      "send(initialized)", "c">>

\* The same without the interval that watches the parent.
HandlerInstallsNoPoll ==
    {"handle", "unhandledRejection", "uncaughtException", "stats"}

\* What the handler of the first message leaves installed: the forwarding
\* listener, the two error listeners and the two intervals.
HandlerInstalls ==
    {"handle", "unhandledRejection", "uncaughtException", "poll", "stats"}

\* What process.send is called with by a list of calls, in order.
RECURSIVE SignalsOf(_)
SignalsOf(calls) ==
    IF calls = <<>> THEN <<>>
    ELSE (IF Head(calls) = "send(ready)" THEN <<READY>>
          ELSE IF Head(calls) = "send(initialized)" THEN <<INITIALIZED>>
          ELSE <<>>) \o SignalsOf(Tail(calls))

\* emit('message') that also calls the listeners added while it runs.
ListenersCalledLive(installed) ==
    IF "init" \in installed THEN installed \cup {"handle"} ELSE installed

\* emit('message') calls the listeners that are installed when it begins;
\* one added by a listener is not called for the message being emitted.
ListenersCalled(installed) == installed \cap {"init", "handle"}

\* What the callbacks of .done(result => ...) call before start().
ConstructCalls == <<"createServices", "createInstance">>

\* ------------------------------------------------------- the debug actions

\* debug.State
DebugStates == {"Disabled", "Inactive", "Initializing", "Stopped", "Running"}

\* The classes derived from AbstractDebugAction
DebugActions ==
    {"Configure", "SelectConfig", "StartDebug", "RestartDebug", "StepOver",
     "StepInto", "StepOut", "StopDebug", "Continue", "Pause",
     "RemoveBreakpoint", "RemoveAllBreakpoints", "ToggleEnablement",
     "EnableAllBreakpoints", "DisableAllBreakpoints",
     "ToggleBreakpointsActivated", "ReapplyBreakpoints", "CopyValue",
     "AddWatchExpression", "AddToWatchExpressions", "RenameWatchExpression",
     "RemoveWatchExpression", "RemoveAllWatchExpressions"}

\* The actions whose listener of BREAKPOINTS_UPDATED calls updateEnablement
OnBreakpointsUpdated ==
    {"RemoveAllBreakpoints", "EnableAllBreakpoints", "DisableAllBreakpoints",
     "ReapplyBreakpoints"}

\* The actions whose listener of WATCH_EXPRESSIONS_UPDATED calls
\* updateEnablement
OnWatchExpressionsUpdated == {"AddWatchExpression", "RemoveAllWatchExpressions"}

\* Every list of at most MaxModel values of a set
ListsOf(S) == UNION { [1..n -> S] : n \in 0..MaxModel }

\* The names a watch expression may have: none yet, or one
WatchNames == {"", "x"}

\* What an action reads: the state and the session of the service, and the
\* enabled flags of the breakpoints, the enabled flags of the exception
\* breakpoints and the names of the watch expressions of the model.
DebugView(state, session, bps, ebps, wes) ==
    [state |-> state, session |-> session, breakpoints |-> bps,
     exceptionBreakpoints |-> ebps, watchExpressions |-> wes]

\* AbstractDebugAction.isEnabled
BaseEnabled(v) == v.state # "Disabled"

\* isEnabled of each class; && binds tighter than ||.
IsEnabled(a, v) ==
    CASE a \in {"SelectConfig", "StartDebug"} ->
            BaseEnabled(v) /\ v.state = "Inactive"
      [] a \in {"RestartDebug", "StopDebug"} ->
            BaseEnabled(v) /\ v.state # "Inactive"
      [] a \in {"StepOver", "StepInto", "StepOut", "Continue"} ->
            BaseEnabled(v) /\ v.state = "Stopped"
      [] a = "Pause" ->
            BaseEnabled(v) /\ v.state = "Running"
      [] a = "RemoveAllBreakpoints" ->
            BaseEnabled(v) /\ Len(v.breakpoints) > 0
      [] a = "EnableAllBreakpoints" ->
            \/ (BaseEnabled(v)
                  /\ Len(SelectSeq(v.breakpoints, LAMBDA e : ~e)) > 0)
            \/ Len(SelectSeq(v.exceptionBreakpoints, LAMBDA e : ~e)) > 0
      [] a = "DisableAllBreakpoints" ->
            \/ (BaseEnabled(v)
                  /\ Len(SelectSeq(v.breakpoints, LAMBDA e : e)) > 0)
            \/ Len(SelectSeq(v.exceptionBreakpoints, LAMBDA e : e)) > 0
      [] a = "ReapplyBreakpoints" ->
            BaseEnabled(v) /\ v.session /\ Len(v.breakpoints) > 0
      [] a = "AddWatchExpression" ->
            BaseEnabled(v) /\ \A i \in 1..Len(v.watchExpressions) :
                                  v.watchExpressions[i] # ""
      [] a = "RemoveAllWatchExpressions" ->
            BaseEnabled(v) /\ Len(v.watchExpressions) > 0
      [] OTHER -> BaseEnabled(v)

\* ------------------------------------------------------- the file walker
\* src/src/vs/workbench/services/search/node/fileSearch.ts, FileWalker.
\* A path is the sequence of its names.  A file system gives, for every
\* real directory, its entries by name: a file, a directory or a symbolic
\* link to a real directory.

FileEntry == [kind |-> "file"]
DirEntry == [kind |-> "dir"]
LinkTo(target) == [kind |-> "link", target |-> target]

\* The directory the searches start in, and its one possible sub-directory
RootDir == <<"r">>
SubDir == <<"r", "d">>

\* A file beside the root directory, searched as a root path of its own
RootFile == <<"g">>

\* config.rootPaths: the paths a search can be given
RootPaths == {RootDir, RootFile}

\* The entries of one directory: the files named in files, the directory d
\* if sub, and the link l if link names its target.
EntriesOf(files, sub, link) ==
    [n \in files \cup (IF sub THEN {"d"} ELSE {})
                 \cup (IF link = <<>> THEN {} ELSE {"l"}) |->
        IF n = "d" THEN DirEntry
        ELSE IF n = "l" THEN LinkTo(link)
        ELSE FileEntry]

\* The directories above the root paths
TopEntries == [n \in {"r", "g"} |-> IF n = "r" THEN DirEntry ELSE FileEntry]

\* The file systems searched: a root directory with files, possibly a
\* sub-directory with files, and possibly a link in either that points to
\* either, so that links form cycles or lead to a directory twice.
FileTrees ==
    {[p \in {<<>>, RootDir} |->
         IF p = <<>> THEN TopEntries ELSE EntriesOf(fl, FALSE, ln)] :
       fl \in {{"f"}, {"f", "h"}}, ln \in {<<>>, RootDir}}
    \cup
    {[p \in {<<>>, RootDir, SubDir} |->
         IF p = <<>> THEN TopEntries
         ELSE IF p = RootDir THEN EntriesOf(fl, TRUE, ln)
         ELSE EntriesOf(sfl, FALSE, sln)] :
       fl \in {{}}, ln \in {<<>>, RootDir, SubDir},
       sfl \in {{"f"}}, sln \in {<<>>, RootDir, SubDir}}

Front(path) == SubSeq(path, 1, Len(path) - 1)
Basename(path) == path[Len(path)]

\* fs.realpath: the path with every link on it resolved
RECURSIVE RealPath(_, _)
RealPath(fs, path) ==
    IF path = <<>> THEN <<>>
    ELSE LET parent == RealPath(fs, Front(path))
             e == fs[parent][Basename(path)]
         IN  IF e.kind = "link" THEN e.target
             ELSE Append(parent, Basename(path))

\* readdir succeeds on a path: it is a directory or a link to one
IsDirectory(fs, path) == RealPath(fs, path) \in DOMAIN fs

\* The names readdir gives for a directory
ReadDir(fs, path) == DOMAIN fs[RealPath(fs, path)]

\* lstat(path).isSymbolicLink()
IsSymbolicLink(fs, path) ==
    fs[RealPath(fs, Front(path))][Basename(path)].kind = "link"

\* A glob expression is the set of base names it matches; none is null.
NoGlob == {}
GlobMatch(expression, name) == name \in expression

\* A search configuration (IRawSearch): maxResults is 0 when no limit is
\* asked for, filePatterns is null or the names the patterns test accepts.
NoPatterns == [set |-> FALSE, names |-> {}]
PatternsOf(names) == [set |-> TRUE, names |-> names]

\* this.maxResults = config.maxResults || null, and the test
\* this.maxResults && ...: a limit of 0 is no limit
HasLimit(maxResults) == maxResults # 0

\* (!this.patterns || this.patterns.test(name)) &&
\* (!this.includePattern || glob.match(this.includePattern, ...))
Accepted(cfg, name) ==
    /\ ~cfg.filePatterns.set \/ name \in cfg.filePatterns.names
    /\ ~cfg.includePattern.set \/ GlobMatch(cfg.includePattern.names, name)

\* --------------------------------------------------------- the find model
\* src/src/vs/editor/contrib/find/browser/findModel.ts,
\* FindModelBoundToEditorModel.  A position is <<lineNumber, column>>.  The
\* editor tracks the range of every decoration; a match is one column wide,
\* so its range is given by the position it starts at.  The id of a
\* decoration is its index in this.decorations.

\* The positions a match or the cursor is at: two on one line and one on
\* the next
Positions == {<<1, 1>>, <<1, 2>>, <<2, 1>>}

\* this.startPosition = null
NullPosition == <<0, 0>>

\* this.highlightedDecorationId = null, and the id of a decoration that was
\* removed
NullId == -1
RemovedId == -2

\* The range of the match that starts at p, and a collapsed selection
RangeAt(p) == [start |-> p, end |-> <<p[1], p[2] + 1>>]
CursorAt(p) == [start |-> p, end |-> p]

\* p is before q in the document
Before(p, q) == p[1] < q[1] \/ (p[1] = q[1] /\ p[2] < q[2])

\* What findMatches gives: up to max matches, in document order
MatchLists(max) ==
    UNION {{m \in [1..n -> Positions] :
              \A i \in 1..n - 1 : Before(m[i], m[i + 1])} : n \in 0..max}

\* The ranges the editor tracks for n decorations after an edit: still in
\* order, possibly at the same place
TrackedLists(n) ==
    {m \in [1..n -> Positions] :
        \A i \in 1..n - 1 : ~Before(m[i + 1], m[i])}

\* The reasons of a CursorPositionChanged event
CursorReasons == {"explicit", "undo", "redo", ""}

\* The remainder of JavaScript: it has the sign of the dividend
JsRem(a, b) == IF a >= 0 THEN a % b ELSE -((-a) % b)

\* previousIndex without the wrap-around
PreviousIndexNoWrap(index, len) ==
    IF len > 0 THEN index - 1 ELSE 0

\* previousIndex(index)
PreviousIndex(index, len) ==
    IF len > 0 THEN JsRem(index - 1 + len, len) ELSE 0

\* nextIndex(index)
NextIndex(index, len) ==
    IF len > 0 THEN JsRem(index + 1, len) ELSE 0

\* The loop of indexAfterPosition from the (i+1)-th decoration on, with a
\* match that starts at the column of the position skipped
RECURSIVE ScanAfterStrict(_, _, _)
ScanAfterStrict(ranges, position, i) ==
    IF i >= Len(ranges) THEN 0
    ELSE LET r == RangeAt(ranges[i + 1])
         IN  IF r.start[1] < position[1]
             THEN ScanAfterStrict(ranges, position, i + 1)
             ELSE IF r.start[1] > position[1] THEN i
             ELSE IF r.start[2] <= position[2]
             THEN ScanAfterStrict(ranges, position, i + 1)
             ELSE i

\* The loop of indexAfterPosition from the (i+1)-th decoration on
RECURSIVE ScanAfter(_, _, _)
ScanAfter(ranges, position, i) ==
    IF i >= Len(ranges) THEN 0
    ELSE LET r == RangeAt(ranges[i + 1])
         IN  IF r.start[1] < position[1]
             THEN ScanAfter(ranges, position, i + 1)
             ELSE IF r.start[1] > position[1] THEN i
             ELSE IF r.start[2] < position[2]
             THEN ScanAfter(ranges, position, i + 1)
             ELSE i

\* indexAfterPosition(position)
IndexAfterPosition(ranges, position) ==
    IF Len(ranges) = 0 THEN 0 ELSE ScanAfter(ranges, position, 0)

\* No matches-updated event
NoEvent == [position |-> -1, count |-> -1]

\* The matches-updated event
MatchesEvent(index, len) ==
    [position |-> IF len > 0 THEN index + 1 ELSE 0, count |-> len]

\* ------------------------------------- output channels and configuration
\* src/src/vs/workbench/electron-browser/main.contribution.ts:
\* ExtHostOutputChannel and MainThreadOutputService, PluginHostConfiguration
\* and MainThreadConfiguration.  A call through the proxy of a remotable
\* object travels to the other side, is handled there in the order of the
\* calls, and its reply travels back.

\* A configuration: none (a falsy value), or settings by key
UndefinedConfig == [defined |-> FALSE, settings |-> <<>>]
ConfigOf(settings) == [defined |-> TRUE, settings |-> settings]

\* The configurations the configuration service holds
Configs ==
    {UndefinedConfig}
       \cup {ConfigOf([k \in {"editor"} |-> v]) : v \in {"on", "off"}}
       \cup {ConfigOf([k \in {"editor", "get"} |-> "on"])}

\* getConfiguration() returned nothing: return;
UndefinedResult == [undefined |-> TRUE]

\* No call of getConfiguration
NoRead == [read |-> FALSE]

\* getConfiguration() with a configuration: a clone of it, or {} for a
\* falsy one, with has and get set to functions
GetConfigurationResult(hasConfig, config) ==
    IF ~hasConfig THEN UndefinedResult
    ELSE LET clone == IF config.defined THEN config.settings ELSE <<>>
         IN  [settings |-> [k \in DOMAIN clone \cup {"has", "get"} |->
                               IF k \in {"has", "get"} THEN "function"
                               ELSE clone[k]]]

\* _acceptConfigurationChanged with the event fired before the
\* configuration is stored: what a listener sees
SeenBeforeStore(before, after) ==
    GetConfigurationResult(before.hasConfig, before.config)

\* _acceptConfigurationChanged: the fields are assigned and then the
\* event is fired; a listener that calls getConfiguration() reads the
\* fields as they are after the assignments.
SeenInListener(before, after) ==
    GetConfigurationResult(after.hasConfig, after.config)

\* ------------------------------------------------------------------- state

VARIABLES
    env,          \* configuration.env: which of the optional paths are set
    workspace,    \* TRUE when getWorkspace() has a resource
    existingFiles,\* the file names that are files at the workspace root
    pc,           \* where the promise chain of readPlugins stands
    scanned,      \* the three lists the scans resolved with
    extensions,   \* the value the chain carries to registerPlugins
    collector,    \* the messages of the PluginsMessageCollector
    registry,     \* PluginsRegistry: the registered descriptors
    doneMessages, \* the messages registrationDone is handed (the service
                  \* shows them and keeps none)
    trace,        \* the calls made to collaborators, in order
    activations,  \* the activateByEvent requests, in order, with their state
    consoleErrors,\* what console.error was called with
    desiredFiles, \* Object.keys(desiredFilesMap)
    checkResults, \* results of the settled fileExistsWithResult promises
    runner,       \* what require(pluginTestsPath) gave
    startState,   \* the promise start() returned
    startError,   \* the error start() rejected with
    scanState,    \* the promise scanPlugins returned
    exitTimers,   \* the delays of the pending setTimeout(process.exit)
    exitCodes,    \* the codes the process ended with (none while it runs)
    hostTrace,    \* the calls the handshake made, in order
    listeners,    \* the listeners and intervals installed on process
    sent,         \* what process.send was called with, in order
    posted,       \* how many messages the parent has put on the channel
    inbox,        \* the parent's messages that have not arrived yet
    initData,     \* the message connectToRenderer resolved with, if any
    handled,      \* what remoteCom.handle was called with, in order
    shared,       \* the promise of connectToSharedProcess
    parentAlive,  \* TRUE while the process msg.parentPid exists
    raised,       \* the errors nothing caught, in order
    unexpected,   \* what onUnexpectedError was called with, in order
    handed,       \* what the IPC layer handed to its send callback
    stats,        \* the stats array of connectToRenderer
    warnings,     \* what console.warn reported: [count, total] per warning
    dbgState,     \* debugService.getState()
    activeSession,\* TRUE when debugService.getActiveSession() gives one
    breakpoints,  \* the enabled flags of getModel().getBreakpoints()
    exceptionBreakpoints, \* those of getModel().getExceptionBreakpoints()
    watchExpressions,     \* the names of getModel().getWatchExpressions()
    enabled,      \* the enabled flag of each debug action
    tree,         \* the file system a walker searches
    config,       \* the IRawSearch the walker was constructed with
    isCanceled,   \* FileWalker.isCanceled
    isLimitHit,   \* FileWalker.isLimitHit
    resultCount,  \* FileWalker.resultCount
    walkedPaths,  \* the keys of FileWalker.walkedPaths
    walks,        \* how often walk() was called
    pending,      \* the readdir and realPathLink calls not called back yet
    joins,        \* per flow.parallel in flight: its items and those done
    reported,     \* the bag of paths onResult of the last walk() was
                  \* called with
    doneCalls,    \* the bag of flags done of the last walk() was called with
    descents,     \* the bag of real paths of the directories doWalk was
                  \* called for since the last walk()
    selection,    \* editor.getSelection()
    decorations,  \* FindModelBoundToEditorModel.decorations: the position
                  \* the range of each starts at
    decorationIndex,         \* FindModelBoundToEditorModel.decorationIndex
    startPosition,           \* FindModelBoundToEditorModel.startPosition
    highlightedDecorationId, \* the index of the highlighted decoration
    hasFindScope, \* TRUE when findScopeDecorationId is set
    didReplace,   \* FindModelBoundToEditorModel.didReplace
    scheduled,    \* TRUE while updateDecorationsScheduler is scheduled
    emittedEvent, \* the matches-updated event the last step emitted, if any
    disposed,     \* ExtHostOutputChannel._disposed
    requests,     \* the calls of the output proxy the main thread has not
                  \* handled yet
    replies,      \* the replies to the calls of dispose() on their way
    output,       \* how many values the output service holds for the channel
    calls,        \* how many methods of the channel were called
    disposeClears,\* how many clear calls dispose() made
    loading,      \* TRUE while loadConfiguration() is pending
    updates,      \* how many UPDATED events the service emitted
    proxyCalls,   \* the configurations on their way to the plugin host
    hostConfig,   \* PluginHostConfiguration._config
    hasConfig,    \* PluginHostConfiguration._hasConfig
    accepts,      \* how often _acceptConfigurationChanged ran
    fires,        \* how often onDidChangeConfiguration fired
    seenInEvent,  \* what getConfiguration() gave the listener of the event
                  \* the last step fired, if any
    readResult    \* what getConfiguration() gave in the last step, if called

\* The state of the handshake and of the channel to the parent
hostVars == <<hostTrace, listeners, sent, posted, inbox, initData, handled,
              shared, parentAlive, raised, unexpected, handed, stats, warnings>>

\* The state of PluginHostMain that nothing but its own steps changes
mainVars == <<env, workspace, existingFiles, pc, scanned, extensions, collector,
              registry, doneMessages, trace, activations, desiredFiles,
              checkResults, runner, startState, startError, scanState,
              exitTimers>>

\* The debug service, its model and the actions
debugVars == <<dbgState, activeSession, breakpoints, exceptionBreakpoints,
               watchExpressions, enabled>>

\* Everything of the plugin host process
pluginHostVars == <<mainVars, consoleErrors, exitCodes, hostVars>>

\* The file walker, its configuration and the file system
walkVars == <<tree, config, isCanceled, isLimitHit, resultCount, walkedPaths,
              walks, pending, joins, reported, doneCalls, descents>>

\* The find model and the selection of its editor
findVars == <<selection, decorations, decorationIndex, startPosition,
              highlightedDecorationId, hasFindScope, didReplace, scheduled,
              emittedEvent>>

\* An output channel of the plugin host and the output service
outVars == <<disposed, requests, replies, output, calls, disposeClears>>

\* The configuration of the plugin host and the main thread's sender
cfgVars == <<loading, updates, proxyCalls, hostConfig, hasConfig, accepts,
             fires, seenInEvent, readResult>>

\* Everything outside the process entry point and PluginHostMain
otherVars == <<debugVars, walkVars, findVars, outVars, cfgVars>>

vars == <<env, workspace, existingFiles, pc, scanned, extensions, collector,
          registry, doneMessages, trace, activations, consoleErrors,
          desiredFiles, checkResults, runner, startState, startError, scanState,
          exitTimers, exitCodes, hostVars, otherVars>>

\* What the actions read now
CurrentView ==
    DebugView(dbgState, activeSession, breakpoints, exceptionBreakpoints,
              watchExpressions)

\* The actions as their constructors leave them when debugging is
\* disabled and the model is empty.
DebugIdle ==
    /\ dbgState = "Disabled"
    /\ activeSession = FALSE
    /\ breakpoints = <<>>
    /\ exceptionBreakpoints = <<>>
    /\ watchExpressions = <<>>
    /\ enabled = [a \in DebugActions |-> IsEnabled(a, CurrentView)]

\* new FileWalker(config): no field but walkedPaths is set, the flags are
\* undefined and read as false.
WalkerConstructed ==
    /\ isCanceled = FALSE
    /\ isLimitHit = FALSE
    /\ resultCount = 0
    /\ walkedPaths = {}
    /\ walks = 0
    /\ pending = {}
    /\ joins = <<>>
    /\ reported = EmptyBag
    /\ doneCalls = EmptyBag
    /\ descents = EmptyBag

\* A walker nothing was asked of, over a file system with no entry
WalkIdle ==
    /\ tree = [p \in {<<>>} |-> <<>>]
    /\ config = [maxResults |-> 0, excludePattern |-> NoGlob,
                 filePatterns |-> NoPatterns, includePattern |-> NoPatterns]
    /\ WalkerConstructed

\* new FindModelBoundToEditorModel(editor), the cursor of the editor
\* anywhere
FindConstructed ==
    /\ decorations = <<>>
    /\ decorationIndex = 0
    /\ startPosition = NullPosition
    /\ highlightedDecorationId = NullId
    /\ hasFindScope = FALSE
    /\ didReplace = FALSE
    /\ scheduled = FALSE
    /\ emittedEvent = NoEvent

\* A find model nothing was asked of, the cursor at the start of the text
FindIdle ==
    /\ selection = CursorAt(<<1, 1>>)
    /\ FindConstructed

\* new ExtHostOutputChannel(name, proxy): _disposed is not set
OutputIdle ==
    /\ disposed = FALSE
    /\ requests = <<>>
    /\ replies = 0
    /\ output = 0
    /\ calls = 0
    /\ disposeClears = 0

\* new PluginHostConfiguration and new MainThreadConfiguration: nothing is
\* stored and loadConfiguration() is pending.
ConfigIdle ==
    /\ loading = TRUE
    /\ updates = 0
    /\ proxyCalls = <<>>
    /\ hostConfig = UndefinedConfig
    /\ hasConfig = FALSE
    /\ accepts = 0
    /\ fires = 0
    /\ seenInEvent = NoRead
    /\ readResult = NoRead

\* Nothing outside the plugin host process has happened.
OthersIdle == DebugIdle /\ WalkIdle /\ FindIdle /\ OutputIdle /\ ConfigIdle

\* process.exit() ran
exited == exitCodes # <<>>

NoScan == [builtin |-> <<>>, user |-> <<>>, dev |-> <<>>]

Envs == [userPluginsHome : BOOLEAN, pluginDevelopmentPath : BOOLEAN,
         pluginTestsPath : BOOLEAN]

\* The fields of a PluginHostMain that has not started
Constructed ==
    /\ scanned = NoScan
    /\ extensions = <<>>
    /\ collector = <<>>
    /\ registry = <<>>
    /\ doneMessages = <<>>
    /\ trace = <<>>
    /\ activations = <<>>
    /\ consoleErrors = <<>>
    /\ desiredFiles = <<>>
    /\ checkResults = <<>>
    /\ runner = NoRunner
    /\ startState = "pending"
    /\ startError = <<>>
    /\ scanState = "none"
    /\ exitTimers = {}
    /\ exitCodes = <<>>

\* The process as it is when PluginHostMain is constructed: the first
\* message was taken as Init Data and the shared process is connected.
HostConnected ==
    /\ hostTrace = ModuleCalls \o InitHandlerCalls \o ConstructCalls
    /\ listeners = HandlerInstalls
    /\ sent = <<READY, INITIALIZED>>
    /\ posted = 1
    /\ inbox = <<>>
    /\ initData = <<ParentMessage(1)>>
    /\ handled = <<>>
    /\ shared = "connected"
    /\ parentAlive = TRUE
    /\ raised = <<>>
    /\ unexpected = <<>>
    /\ handed = <<>>
    /\ stats = <<>>
    /\ warnings = <<>>

Init ==
    /\ env \in Envs
    /\ workspace \in BOOLEAN
    /\ existingFiles \in IF workspace THEN SUBSET {FileA, FileB} ELSE {{}}
    /\ pc = "created"
    /\ Constructed
    /\ HostConnected
    /\ OthersIdle

PendingChecks == (1..Len(desiredFiles)) \ DOMAIN checkResults

\* ----------------------------------------------------------------- actions

\* start() -> readPlugins(): the collector is made and the three scans begin
ReadPlugins ==
    /\ pc = "created" /\ ~exited
    /\ pc' = "scanning"
    /\ collector' = <<>>
    /\ scanState' = "pending"
    /\ trace' = Append(trace, "scanPlugins")
    /\ UNCHANGED <<env, workspace, existingFiles, scanned, extensions, registry,
                   doneMessages, activations, consoleErrors, desiredFiles,
                   checkResults, runner, startState, exitTimers, startError, exitCodes>>
    /\ UNCHANGED hostVars
    /\ UNCHANGED otherVars

\* The lists the three scans may resolve with: a source whose path is not
\* set is not scanned and gives TPromise.as([]).
ScanInputs(max, ids, events) ==
    { [builtin |-> b, user |-> u, dev |-> d] :
        b \in ScanLists("builtin", max, ids, events),
        u \in IF env.userPluginsHome THEN ScanLists("user", max, ids, events) ELSE {<<>>},
        d \in IF env.pluginDevelopmentPath THEN ScanLists("dev", max, ids, events) ELSE {<<>>} }

\* The three scans resolved: the join's callback merges them.
ScanResolved(inputs) ==
    /\ pc = "scanning" /\ ~exited
    /\ \E in \in inputs :
         LET m == MergePlugins(in.builtin, in.user, in.dev)
         IN  /\ extensions' = m.map
             /\ collector' = collector \o m.msgs
             /\ scanned' = in
    /\ scanState' = "resolved"
    /\ pc' = "scanned"
    /\ UNCHANGED <<env, workspace, existingFiles, registry, doneMessages, trace,
                   activations, consoleErrors, desiredFiles, checkResults,
                   runner, startState, exitTimers, startError, exitCodes>>
    /\ UNCHANGED hostVars
    /\ UNCHANGED otherVars

\* A scan rejected: scanPlugins rejects.
ScanRejected ==
    /\ pc = "scanning" /\ ~exited
    /\ pc' = "scanFailed"
    /\ scanState' = "rejected"
    /\ UNCHANGED <<env, workspace, existingFiles, scanned, extensions, collector,
                   registry, doneMessages, trace, activations, consoleErrors,
                   desiredFiles, checkResults, runner, startState, exitTimers,
                   startError, exitCodes>>
    /\ UNCHANGED hostVars
    /\ UNCHANGED otherVars

\* The chain without the error handler: the rejection reaches start().
ScanErrorUnhandled ==
    /\ pc = "scanFailed" /\ ~exited
    /\ startState' = "rejected"
    /\ startError' = ScanError
    /\ pc' = "rejecting"
    /\ UNCHANGED <<env, workspace, existingFiles, scanned, extensions, collector,
                   registry, doneMessages, trace, activations, consoleErrors,
                   desiredFiles, checkResults, runner, scanState, exitTimers,
                   exitCodes>>
    /\ UNCHANGED hostVars
    /\ UNCHANGED otherVars

\* .then(null, err => { collector.error('', err); return []; })
ScanErrorHandler ==
    /\ pc = "scanFailed" /\ ~exited
    /\ collector' = Append(collector, ErrorMessage(ScanError))
    /\ extensions' = <<>>
    /\ pc' = "scanned"
    /\ UNCHANGED <<env, workspace, existingFiles, scanned, registry, doneMessages,
                   trace, activations, consoleErrors, desiredFiles, checkResults,
                   runner, startState, exitTimers, startError, scanState, exitCodes>>
    /\ UNCHANGED hostVars
    /\ UNCHANGED otherVars

\* The two calls in the other order.
RegistrationDoneFirst ==
    /\ pc = "scanned" /\ ~exited
    /\ registry' = registry \o extensions
    /\ doneMessages' = collector
    /\ trace' = trace \o <<"registrationDone", "registerPlugins">>
    /\ pc' = "registered"
    /\ scanned' = NoScan
    /\ extensions' = <<>>
    /\ collector' = <<>>
    /\ UNCHANGED <<env, workspace, existingFiles, activations, consoleErrors,
                   desiredFiles, checkResults, runner, startState, exitTimers,
                   startError, scanState, exitCodes>>
    /\ UNCHANGED hostVars
    /\ UNCHANGED otherVars

\* .then(extensions => { registerPlugins(extensions);
\*                       registrationDone(collector.getMessages()); })
RegisterPlugins ==
    /\ pc = "scanned" /\ ~exited
    /\ registry' = registry \o extensions
    /\ doneMessages' = collector
    /\ trace' = trace \o <<"registerPlugins", "registrationDone">>
    /\ pc' = "registered"
    /\ scanned' = NoScan
    /\ extensions' = <<>>
    /\ collector' = <<>>
    /\ UNCHANGED <<env, workspace, existingFiles, activations, consoleErrors,
                   desiredFiles, checkResults, runner, startState, exitTimers,
                   startError, scanState, exitCodes>>
    /\ UNCHANGED hostVars
    /\ UNCHANGED otherVars

\* handleEagerPlugins() that does not return the promise of
\* handleWorkspaceContainsEagerPlugins(): the chain goes on at once.
HandleEagerPluginsNoWait ==
    /\ pc = "registered" /\ ~exited
    /\ activations' = Append(activations, Request(STAR))
    /\ pc' = "eagerDone"
    /\ IF ~workspace
       THEN /\ trace' = Append(trace, "activateByEvent")
            /\ UNCHANGED desiredFiles
       ELSE /\ trace' = trace \o <<"activateByEvent", "getAllPluginDescriptions">>
            /\ desiredFiles' = DesiredFiles(<<>>, registry)
    /\ checkResults' = <<>>
    /\ doneMessages' = <<>>
    /\ UNCHANGED <<env, workspace, existingFiles, scanned, extensions, collector,
                   registry, consoleErrors, runner, startState, exitTimers,
                   startError, scanState, exitCodes>>
    /\ UNCHANGED hostVars
    /\ UNCHANGED otherVars

\* handleEagerPlugins() that tests for the workspace before anything else:
\* with no workspace open it issues no request at all.
HandleEagerPluginsWorkspaceOnly ==
    /\ pc = "registered" /\ ~exited
    /\ IF ~workspace
       THEN /\ pc' = "eagerDone"
            /\ UNCHANGED <<activations, trace, desiredFiles>>
       ELSE /\ pc' = "checking"
            /\ activations' = Append(activations, Request(STAR))
            /\ trace' = trace \o <<"activateByEvent", "getAllPluginDescriptions">>
            /\ desiredFiles' = DesiredFiles(<<>>, registry)
    /\ checkResults' = <<>>
    /\ doneMessages' = <<>>
    /\ UNCHANGED <<env, workspace, existingFiles, scanned, extensions, collector,
                   registry, consoleErrors, runner, startState,
                   exitTimers, startError, scanState, exitCodes>>
    /\ UNCHANGED hostVars
    /\ UNCHANGED otherVars

\* handleEagerPlugins(): the wildcard request, then
\* handleWorkspaceContainsEagerPlugins() up to the join of the checks.
HandleEagerPlugins ==
    /\ pc = "registered" /\ ~exited
    /\ activations' = Append(activations, Request(STAR))
    /\ IF ~workspace
       THEN /\ pc' = "eagerDone"
            /\ trace' = Append(trace, "activateByEvent")
            /\ UNCHANGED desiredFiles
       ELSE /\ pc' = "checking"
            /\ trace' = trace \o <<"activateByEvent", "getAllPluginDescriptions">>
            /\ desiredFiles' = DesiredFiles(<<>>, registry)
    /\ checkResults' = <<>>
    /\ doneMessages' = <<>>
    /\ UNCHANGED <<env, workspace, existingFiles, scanned, extensions, collector,
                   registry, consoleErrors, runner, startState,
                   exitTimers, startError, scanState, exitCodes>>
    /\ UNCHANGED hostVars
    /\ UNCHANGED otherVars

\* One fileExistsWithResult promise settles; the checks race freely.
FileCheckSettles(i) ==
    /\ pc = "checking" /\ ~exited
    /\ i \in PendingChecks
    /\ checkResults' = checkResults @@ (i :> FileExistsWithResult(existingFiles, desiredFiles[i]))
    /\ UNCHANGED <<env, workspace, existingFiles, pc, scanned, extensions,
                   collector, registry, doneMessages, trace, activations,
                   consoleErrors, desiredFiles, runner, startState, exitTimers,
                   startError, scanState, exitCodes>>
    /\ UNCHANGED hostVars
    /\ UNCHANGED otherVars

\* The forEach of line 289 run as soon as one check has settled instead
\* of after the join of all of them: files whose check is still pending
\* count as absent.
ActivateExistingEarly ==
    /\ pc = "checking" /\ ~exited
    /\ Len(desiredFiles) > 0 => DOMAIN checkResults # {}
    /\ LET settled == [i \in 1..Len(desiredFiles) |->
                          IF i \in DOMAIN checkResults THEN checkResults[i]
                          ELSE NullResult]
           reqs == RequestsOf(settled, 1)
       IN  /\ activations' = activations \o reqs
           /\ trace' = trace \o [i \in 1..Len(reqs) |-> "activateByEvent"]
    /\ pc' = "eagerDone"
    /\ UNCHANGED <<env, workspace, existingFiles, scanned, extensions, collector,
                   registry, doneMessages, consoleErrors, desiredFiles,
                   checkResults, runner, startState, exitTimers, startError, scanState, exitCodes>>
    /\ UNCHANGED hostVars
    /\ UNCHANGED otherVars

\* The join of the checks resolved: .then((fileNames) => fileNames.forEach(...))
ActivateExisting ==
    /\ pc = "checking" /\ ~exited
    /\ PendingChecks = {}
    /\ LET reqs == RequestsOf(checkResults, 1)
       IN  /\ activations' = activations \o reqs
           /\ trace' = trace \o [i \in 1..Len(reqs) |-> "activateByEvent"]
    /\ pc' = "eagerDone"
    /\ UNCHANGED <<env, workspace, existingFiles, scanned, extensions, collector,
                   registry, doneMessages, consoleErrors, desiredFiles,
                   checkResults, runner, startState, exitTimers, startError, scanState, exitCodes>>
    /\ UNCHANGED hostVars
    /\ UNCHANGED otherVars

\* An activateByEvent promise whose rejection is returned into the chain
\* of readPlugins instead of being handed to console.error: it rejects
\* start().
ActivationSettlesFatal(i, ok) ==
    /\ ~exited
    /\ i \in 1..Len(activations)
    /\ activations[i].state = "pending"
    /\ activations' = [activations EXCEPT ![i].state = IF ok THEN "resolved" ELSE "rejected"]
    /\ IF ok \/ startState # "pending"
       THEN UNCHANGED <<startState, startError>>
       ELSE /\ startState' = "rejected"
            /\ startError' = ActivationErrorText
    /\ UNCHANGED <<env, workspace, existingFiles, pc, scanned, extensions,
                   collector, registry, doneMessages, trace, desiredFiles,
                   consoleErrors, checkResults, runner, exitTimers, scanState,
                   exitCodes>>
    /\ UNCHANGED hostVars
    /\ UNCHANGED otherVars

\* An activateByEvent promise settles; a rejection goes to console.error.
ActivationSettles(i, ok) ==
    /\ ~exited
    /\ i \in 1..Len(activations)
    /\ activations[i].state = "pending"
    /\ activations' = [activations EXCEPT ![i].state = IF ok THEN "resolved" ELSE "rejected"]
    /\ consoleErrors' = IF ok THEN consoleErrors
                        ELSE Append(consoleErrors, ActivationErrorText)
    /\ UNCHANGED <<env, workspace, existingFiles, pc, scanned, extensions,
                   collector, registry, doneMessages, trace, desiredFiles,
                   checkResults, runner, startState, exitTimers, startError, scanState, exitCodes>>
    /\ UNCHANGED hostVars
    /\ UNCHANGED otherVars

\* A continuation of the promise chain is ready to run: the promise it
\* waits for has settled.  Continuations run before any timer callback.
ChainReady ==
    \/ pc \in {"created", "scanFailed", "scanned", "registered", "eagerDone",
              "rejecting"}
    \/ pc = "checking" /\ PendingChecks = {}

\* handlePluginTests(): nothing without the test configuration; otherwise
\* the runner is required and, if it follows the contract, run is invoked.
\* An exception run throws rejects the promise of line 319 (thrown in the
\* promise's initializer, or failing that in the then-callback of line 214):
\* either way nothing schedules an exit.
HandlePluginTests(m) ==
    /\ pc = "eagerDone" /\ ~exited
    /\ IF TestsNotConfigured(env)
       THEN /\ startState' = "resolved"
            /\ pc' = "done"
            /\ trace' = Append(trace, "handlePluginTests")
            /\ UNCHANGED <<runner, startError, exitTimers>>
       ELSE /\ runner' = m
            /\ IF FollowsSpec(m)
               THEN /\ trace' = trace \o <<"handlePluginTests", "require", "run">>
                    /\ UNCHANGED exitTimers
                    /\ IF m.run = "throws"
                       THEN /\ startState' = "rejected"
                            /\ startError' = RunThrownText
                            /\ pc' = "rejecting"
                       ELSE /\ pc' = "running"
                            /\ UNCHANGED <<startState, startError>>
               ELSE /\ trace' = trace \o <<"handlePluginTests", "require">>
                    /\ exitTimers' = exitTimers \cup {ERROR_DELAY}
                    /\ startState' = "rejected"
                    /\ startError' = RunnerErrorText(m)
                    /\ pc' = "rejecting"
    /\ UNCHANGED <<env, workspace, existingFiles, scanned, extensions, collector,
                   registry, doneMessages, activations, consoleErrors,
                   desiredFiles, checkResults, scanState, exitCodes>>
    /\ UNCHANGED hostVars
    /\ UNCHANGED otherVars

\* The runner invokes the callback it was given: the promise settles and
\* the exit is scheduled after the grace delay.
RunnerCallback ==
    /\ pc = "running" /\ ~exited
    /\ runner.run \in {"ok", "error"}
    /\ IF runner.run = "error"
       THEN /\ startState' = "rejected"
            /\ startError' = RunErrorText
            /\ pc' = "rejecting"
       ELSE /\ startState' = "resolved"
            /\ pc' = "done"
            /\ UNCHANGED startError
    /\ exitTimers' = exitTimers \cup {GRACE_DELAY}
    /\ trace' = Append(trace, "callback")
    /\ UNCHANGED <<env, workspace, existingFiles, scanned, extensions, collector,
                   registry, doneMessages, activations, consoleErrors,
                   desiredFiles, checkResults, runner, scanState, exitCodes>>
    /\ UNCHANGED hostVars
    /\ UNCHANGED otherVars

\* pluginHostMain.start().done(null, err => console.error(err))
ReportError ==
    /\ pc = "rejecting" /\ ~exited
    /\ consoleErrors' = Append(consoleErrors, startError)
    /\ pc' = "done"
    /\ UNCHANGED <<env, workspace, existingFiles, scanned, extensions, collector,
                   registry, doneMessages, trace, activations, desiredFiles,
                   checkResults, runner, startState, startError, scanState,
                   exitTimers, exitCodes>>
    /\ UNCHANGED hostVars
    /\ UNCHANGED otherVars

\* A setTimeout(() => process.exit(), d) fires.
ExitTimerFires(d) ==
    /\ ~exited /\ ~ChainReady
    /\ d \in exitTimers
    /\ exitTimers' = exitTimers \ {d}
    /\ exitCodes' = Append(exitCodes, EXIT_CODE)
    /\ UNCHANGED <<env, workspace, existingFiles, pc, scanned, extensions,
                   collector, registry, doneMessages, trace, activations,
                   consoleErrors, desiredFiles, checkResults, runner, startState,
                   startError, scanState>>
    /\ UNCHANGED hostVars
    /\ UNCHANGED otherVars

\* ------------------------------------------------- actions of the handshake

\* The callback of TPromise.join(...).done is ready to run.
JoinReady == pc = "connecting" /\ initData # <<>> /\ shared = "connected"

\* Nothing is left to run in the current turn of the event loop: the next
\* message, timer or error event may be taken.
HostIdle == ~ChainReady /\ ~JoinReady

\* The module is loaded: connectToRenderer() installs the listener of the
\* first message and sends 'ready', connectToSharedProcess() begins to
\* connect, and the join waits for both.
LoadModule ==
    /\ pc = "connecting" /\ ~exited
    /\ hostTrace = <<>>
    /\ hostTrace' = ModuleCalls
    /\ listeners' = {"init"}
    /\ sent' = sent \o SignalsOf(ModuleCalls)
    /\ shared' = "connecting"
    /\ UNCHANGED <<posted, inbox, initData, handled, parentAlive, raised,
                   unexpected, handed, stats, warnings>>
    /\ UNCHANGED <<mainVars, consoleErrors, exitCodes>>
    /\ UNCHANGED otherVars

\* The parent puts its next message on the channel.
ParentSends ==
    /\ parentAlive /\ ~exited
    /\ posted < MaxMessages
    /\ posted' = posted + 1
    /\ inbox' = Append(inbox, ParentMessage(posted + 1))
    /\ UNCHANGED <<hostTrace, listeners, sent, initData, handled, shared,
                   parentAlive, raised, unexpected, handed, stats, warnings>>
    /\ UNCHANGED <<mainVars, consoleErrors, exitCodes>>
    /\ UNCHANGED otherVars

\* The parent process ends.
ParentDies ==
    /\ parentAlive /\ ~exited
    /\ parentAlive' = FALSE
    /\ UNCHANGED <<hostTrace, listeners, sent, posted, inbox, initData,
                   handled, shared, raised, unexpected, handed, stats, warnings>>
    /\ UNCHANGED <<mainVars, consoleErrors, exitCodes>>
    /\ UNCHANGED otherVars

\* The oldest message of the channel is emitted.  The listener of
\* process.once is removed and run: it installs the forwarding listener,
\* the error listeners and the intervals, sends 'initialized' and resolves
\* the promise with the message.  The listener of process.on hands the
\* message to remoteCom.handle.
MessageArrives ==
    /\ ~exited /\ HostIdle
    /\ inbox # <<>>
    /\ ListenersCalled(listeners) # {}
    /\ LET msg == Head(inbox)
           called == ListenersCalled(listeners)
       IN  /\ inbox' = Tail(inbox)
           /\ handled' = IF "handle" \in called THEN Append(handled, msg)
                         ELSE handled
           /\ IF "init" \in called
              THEN /\ listeners' = (listeners \ {"init"}) \cup HandlerInstalls
                   /\ hostTrace' = hostTrace \o InitHandlerCalls
                   /\ sent' = sent \o SignalsOf(InitHandlerCalls)
                   /\ initData' = IF initData = <<>> THEN <<msg>> ELSE initData
              ELSE UNCHANGED <<listeners, hostTrace, sent, initData>>
    /\ UNCHANGED <<posted, shared, parentAlive, raised, unexpected, handed,
                   stats, warnings>>
    /\ UNCHANGED <<mainVars, consoleErrors, exitCodes>>
    /\ UNCHANGED otherVars

\* connect(process.env['VSCODE_SHARED_IPC_HOOK']) settles.
SharedSettles(ok) ==
    /\ ~exited /\ HostIdle
    /\ shared = "connecting"
    /\ shared' = IF ok THEN "connected" ELSE "failed"
    /\ UNCHANGED <<hostTrace, listeners, sent, posted, inbox, initData,
                   handled, parentAlive, raised, unexpected, handed, stats,
                   warnings>>
    /\ UNCHANGED <<mainVars, consoleErrors, exitCodes>>
    /\ UNCHANGED otherVars

\* A join that resolves with the first of the two promises.
JoinDoneAny ==
    /\ pc = "connecting" /\ ~exited
    /\ initData # <<>> \/ shared = "connected"
    /\ pc' = "created"
    /\ hostTrace' = hostTrace \o ConstructCalls
    /\ UNCHANGED <<listeners, sent, posted, inbox, initData, handled, shared,
                   parentAlive, raised, unexpected, handed, stats, warnings>>
    /\ UNCHANGED <<env, workspace, existingFiles, scanned, extensions, collector,
                   registry, doneMessages, trace, activations, desiredFiles,
                   checkResults, runner, startState, startError, scanState,
                   exitTimers, consoleErrors, exitCodes>>
    /\ UNCHANGED otherVars

\* Both promises resolved: the callback of .done makes the services and
\* the PluginHostMain; start() is the step ReadPlugins.
JoinDone ==
    /\ JoinReady /\ ~exited
    /\ pc' = "created"
    /\ hostTrace' = hostTrace \o ConstructCalls
    /\ UNCHANGED <<listeners, sent, posted, inbox, initData, handled, shared,
                   parentAlive, raised, unexpected, handed, stats, warnings>>
    /\ UNCHANGED <<env, workspace, existingFiles, scanned, extensions, collector,
                   registry, doneMessages, trace, activations, desiredFiles,
                   checkResults, runner, startState, startError, scanState,
                   exitTimers, consoleErrors, exitCodes>>
    /\ UNCHANGED otherVars

ErrorKinds == {"uncaughtException", "unhandledRejection"}

\* console.error('unhandled rejected promise', promise)
UnhandledRejectionText == <<"unhandled rejected promise">>

\* An exception nothing catches or a rejection nothing handles.  With the
\* listener installed it gets the error: onUnexpectedError is called (and
\* console.error, for a rejection).  With none installed the runtime's
\* default applies: an uncaught exception ends the process, an unhandled
\* rejection is dropped.
ErrorRaised(kind) ==
    /\ ~exited /\ HostIdle
    /\ hostTrace # <<>>
    /\ Len(raised) < MaxErrors
    /\ LET err == [kind |-> kind, n |-> Len(raised) + 1]
       IN  /\ raised' = Append(raised, err)
           /\ IF kind \in listeners
              THEN /\ unexpected' = Append(unexpected, err)
                   /\ consoleErrors' =
                         IF kind = "unhandledRejection"
                         THEN Append(consoleErrors, UnhandledRejectionText)
                         ELSE consoleErrors
                   /\ UNCHANGED exitCodes
              ELSE /\ exitCodes' =
                         IF kind = "uncaughtException"
                         THEN Append(exitCodes, UNCAUGHT_EXIT_CODE)
                         ELSE exitCodes
                   /\ UNCHANGED <<unexpected, consoleErrors>>
    /\ UNCHANGED <<hostTrace, listeners, sent, posted, inbox, initData,
                   handled, shared, parentAlive, handed, stats, warnings>>
    /\ UNCHANGED mainVars
    /\ UNCHANGED otherVars

\* The interval of 5000 ms: process.kill(msg.parentPid, 0) throws when the
\* parent does not exist, and the process exits.
PollTick ==
    /\ ~exited /\ HostIdle
    /\ "poll" \in listeners
    /\ exitCodes' = IF parentAlive THEN exitCodes
                    ELSE Append(exitCodes, EXIT_CODE)
    /\ UNCHANGED <<mainVars, consoleErrors, hostVars>>
    /\ UNCHANGED otherVars

\* stats.reduce((prev, current) => prev + current, 0), summed by halves
RECURSIVE Sum(_)
Sum(seq) ==
    IF seq = <<>> THEN 0
    ELSE IF Len(seq) = 1 THEN seq[1]
    ELSE LET mid == Len(seq) \div 2
         IN  Sum(SubSeq(seq, 1, mid)) + Sum(SubSeq(seq, mid + 1, Len(seq)))

\* A send callback that holds back what goes beyond the warning count.
IpcSendsThrottled ==
    /\ ~exited
    /\ initData # <<>>
    /\ Len(handed) < MaxSends
    /\ LET data == Data(Len(handed) + 1)
       IN  /\ handed' = Append(handed, data)
           /\ sent' = IF Len(stats) >= WARN_COUNT THEN sent
                      ELSE Append(sent, data)
           /\ stats' = Append(stats, data.length)
    /\ UNCHANGED <<hostTrace, listeners, posted, inbox, initData, handled,
                   shared, parentAlive, raised, unexpected, warnings>>
    /\ UNCHANGED <<mainVars, consoleErrors, exitCodes>>
    /\ UNCHANGED otherVars

\* remoteCom sends: the callback given to createIPC calls process.send
\* and records the length.
IpcSends ==
    /\ ~exited
    /\ initData # <<>>
    /\ Len(handed) < MaxSends
    /\ LET data == Data(Len(handed) + 1)
       IN  /\ handed' = Append(handed, data)
           /\ sent' = Append(sent, data)
           /\ stats' = Append(stats, data.length)
    /\ UNCHANGED <<hostTrace, listeners, posted, inbox, initData, handled,
                   shared, parentAlive, raised, unexpected, warnings>>
    /\ UNCHANGED <<mainVars, consoleErrors, exitCodes>>
    /\ UNCHANGED otherVars

\* The interval of 1000 ms: two warnings (kept as one entry) when the
\* array holds WARN_COUNT lengths or more; the array is emptied.
StatsTick ==
    /\ ~exited
    /\ "stats" \in listeners
    /\ warnings' = IF Len(stats) >= WARN_COUNT
                   THEN Append(warnings, [count |-> Len(stats), total |-> Sum(stats)])
                   ELSE warnings
    /\ stats' = <<>>
    /\ UNCHANGED <<hostTrace, listeners, sent, posted, inbox, initData,
                   handled, shared, parentAlive, raised, unexpected, handed>>
    /\ UNCHANGED <<mainVars, consoleErrors, exitCodes>>
    /\ UNCHANGED otherVars

\* ---------------------------------------------------------- specifications

Next ==
    \/ ReadPlugins
    \/ ScanResolved(ScanInputs(MaxScan, Ids, EventChoices))
    \/ ScanRejected
    \/ ScanErrorHandler
    \/ RegisterPlugins
    \/ HandleEagerPlugins
    \/ \E i \in 1..Len(desiredFiles) : FileCheckSettles(i)
    \/ ActivateExisting
    \/ \E i \in 1..Len(activations), ok \in BOOLEAN : ActivationSettles(i, ok)
    \/ \E m \in RunnerModules : HandlePluginTests(m)
    \/ RunnerCallback
    \/ ReportError
    \/ \E d \in exitTimers : ExitTimerFires(d)

\* The lifecycle of one host process.
Spec == Init /\ [][Next]_vars

\* scanPlugins alone, on wider descriptor lists without activation events.
NextScan ==
    \/ ReadPlugins
    \/ ScanResolved(ScanInputs(MaxMerge, MergeIds, {<<>>}))

InitScan == Init /\ ~workspace /\ ~env.pluginTestsPath

SpecScan == InitScan /\ [][NextScan]_vars

\* The lifecycle under the scheduling the event loop guarantees: a ready
\* continuation runs, a due timer fires, the scans and the file checks
\* settle, and a runner that calls back does so.  An activation request
\* may stay pending for ever.
Fairness ==
    /\ WF_vars(ReadPlugins)
    /\ WF_vars(ScanResolved(ScanInputs(MaxScan, Ids, EventChoices)) \/ ScanRejected)
    /\ WF_vars(ScanErrorHandler)
    /\ WF_vars(RegisterPlugins)
    /\ WF_vars(HandleEagerPlugins)
    /\ WF_vars(\E i \in 1..Len(desiredFiles) : FileCheckSettles(i))
    /\ WF_vars(ActivateExisting)
    /\ WF_vars(\E m \in RunnerModules : HandlePluginTests(m))
    /\ WF_vars(RunnerCallback)
    /\ WF_vars(ReportError)
    /\ WF_vars(\E d \in exitTimers : ExitTimerFires(d))

LiveSpec == Init /\ [][Next]_vars /\ Fairness

\* The process before its module runs: nothing is installed or sent.
HostBoot ==
    /\ hostTrace = <<>>
    /\ listeners = {}
    /\ sent = <<>>
    /\ posted = 0
    /\ inbox = <<>>
    /\ initData = <<>>
    /\ handled = <<>>
    /\ shared = "none"
    /\ parentAlive = TRUE
    /\ raised = <<>>
    /\ unexpected = <<>>
    /\ handed = <<>>
    /\ stats = <<>>
    /\ warnings = <<>>

\* A process started for a test run in a workspace that holds one file.
InitHost ==
    /\ env = [userPluginsHome |-> FALSE, pluginDevelopmentPath |-> TRUE,
              pluginTestsPath |-> TRUE]
    /\ workspace = TRUE
    /\ existingFiles = {FileA}
    /\ pc = "connecting"
    /\ Constructed
    /\ HostBoot
    /\ OthersIdle

\* One builtin descriptor that wants the file.
HostScanInputs ==
    { [builtin |-> <<PluginDescription("builtin", 1, "a", <<EvA>>)>>,
       user |-> <<>>, dev |-> <<>>] }

NextHost ==
    \/ LoadModule
    \/ ParentSends
    \/ ParentDies
    \/ MessageArrives
    \/ \E ok \in BOOLEAN : SharedSettles(ok)
    \/ JoinDone
    \/ PollTick
    \/ ReadPlugins
    \/ ScanResolved(HostScanInputs)
    \/ ScanRejected
    \/ ScanErrorHandler
    \/ RegisterPlugins
    \/ HandleEagerPlugins
    \/ \E i \in 1..Len(desiredFiles) : FileCheckSettles(i)
    \/ ActivateExisting
    \/ \E i \in 1..Len(activations), ok \in BOOLEAN : ActivationSettles(i, ok)
    \/ \E m \in RunnerModules : HandlePluginTests(m)
    \/ RunnerCallback
    \/ ReportError
    \/ \E d \in exitTimers : ExitTimerFires(d)

\* The process from its start: the handshake, then the lifecycle.
SpecHost == InitHost /\ [][NextHost]_vars

\* The handshake under the scheduling of the event loop: the module runs,
\* an arrived message is emitted, the intervals tick and ready callbacks
\* run.  The parent may never send and the connection may never settle.
FairnessHost ==
    /\ WF_vars(LoadModule)
    /\ WF_vars(MessageArrives)
    /\ WF_vars(JoinDone)
    /\ WF_vars(PollTick)
    /\ Fairness

LiveHost == InitHost /\ [][NextHost]_vars /\ FairnessHost

\* The same process when errors that nothing catches may be raised.
NextHostErrors ==
    \/ NextHost
    \/ \E kind \in ErrorKinds : ErrorRaised(kind)

SpecHostErrors == InitHost /\ [][NextHostErrors]_vars

\* The channel to the parent once the host is constructed, with no
\* workspace and no optional path.
InitStats ==
    /\ Init
    /\ ~workspace
    /\ env = [userPluginsHome |-> FALSE, pluginDevelopmentPath |-> FALSE,
              pluginTestsPath |-> FALSE]

NextStats ==
    \/ IpcSends
    \/ StatsTick

SpecStats == InitStats /\ [][NextStats]_vars

\* --------------------------------------------------- the debug actions run

\* The plugin host process, set aside: constructed, with no workspace and
\* no optional path.
HostAside ==
    /\ env = [userPluginsHome |-> FALSE, pluginDevelopmentPath |-> FALSE,
              pluginTestsPath |-> FALSE]
    /\ workspace = FALSE
    /\ existingFiles = {}
    /\ pc = "created"
    /\ Constructed
    /\ HostConnected

\* What the steps of the debug actions leave alone
debugRest == <<pluginHostVars, walkVars, findVars, outVars, cfgVars>>

\* The service changes state and emits STATE_CHANGED: the listener every
\* action installed in the constructor of AbstractDebugAction runs.
DebugStateChanged(state, session) ==
    /\ dbgState' = state
    /\ activeSession' = session
    /\ enabled' = [a \in DebugActions |->
                      IsEnabled(a, DebugView(state, session, breakpoints,
                                             exceptionBreakpoints,
                                             watchExpressions))]
    /\ UNCHANGED <<breakpoints, exceptionBreakpoints, watchExpressions>>
    /\ UNCHANGED debugRest

\* The model changes its breakpoints or exception breakpoints and emits
\* BREAKPOINTS_UPDATED: the actions that listen to it update their flag.
BreakpointsUpdated(bps, ebps) ==
    /\ breakpoints' = bps
    /\ exceptionBreakpoints' = ebps
    /\ enabled' = [a \in DebugActions |->
                      IF a \in OnBreakpointsUpdated
                      THEN IsEnabled(a, DebugView(dbgState, activeSession, bps,
                                                  ebps, watchExpressions))
                      ELSE enabled[a]]
    /\ UNCHANGED <<dbgState, activeSession, watchExpressions>>
    /\ UNCHANGED debugRest

\* The model changes its watch expressions and emits
\* WATCH_EXPRESSIONS_UPDATED.
WatchExpressionsUpdated(wes) ==
    /\ watchExpressions' = wes
    /\ enabled' = [a \in DebugActions |->
                      IF a \in OnWatchExpressionsUpdated
                      THEN IsEnabled(a, DebugView(dbgState, activeSession,
                                                  breakpoints,
                                                  exceptionBreakpoints, wes))
                      ELSE enabled[a]]
    /\ UNCHANGED <<dbgState, activeSession, breakpoints, exceptionBreakpoints>>
    /\ UNCHANGED debugRest

\* The actions are constructed while the service is in any state and the
\* model is empty: the constructor ends with updateEnablement().
InitDebug ==
    /\ HostAside
    /\ WalkIdle
    /\ FindIdle
    /\ OutputIdle
    /\ ConfigIdle
    /\ dbgState \in DebugStates
    /\ activeSession = FALSE
    /\ breakpoints = <<>>
    /\ exceptionBreakpoints = <<>>
    /\ watchExpressions = <<>>
    /\ enabled = [a \in DebugActions |-> IsEnabled(a, CurrentView)]

NextDebug ==
    \/ \E state \in DebugStates, session \in BOOLEAN :
          DebugStateChanged(state, session)
    \/ \E bps \in ListsOf(BOOLEAN), ebps \in ListsOf(BOOLEAN) :
          BreakpointsUpdated(bps, ebps)
    \/ \E wes \in ListsOf(WatchNames) : WatchExpressionsUpdated(wes)

SpecDebug == InitDebug /\ [][NextDebug]_vars

\* ------------------------------------------------------ the file walker run

\* The walker as one record, for the steps that are computed
Walker ==
    [isCanceled |-> isCanceled, isLimitHit |-> isLimitHit,
     resultCount |-> resultCount, walkedPaths |-> walkedPaths,
     walks |-> walks, pending |-> pending, joins |-> joins,
     reported |-> reported, doneCalls |-> doneCalls, descents |-> descents]

\* The walker becomes the record st
WalkerBecomes(st) ==
    \E s \in {st} :
       /\ isCanceled' = s.isCanceled
       /\ isLimitHit' = s.isLimitHit
       /\ resultCount' = s.resultCount
       /\ walkedPaths' = s.walkedPaths
       /\ walks' = s.walks
       /\ pending' = s.pending
       /\ joins' = s.joins
       /\ reported' = s.reported
       /\ doneCalls' = s.doneCalls
       /\ descents' = s.descents

\* What the steps of the walker leave alone
walkRest == <<pluginHostVars, debugVars, findVars, outVars, cfgVars, tree,
              config>>

\* flow.parallel(list, fn, callback): the callback runs once, when as many
\* items have called back as the list holds.
AllCalledBack(join, doneCount) == doneCount = join.total

\* The callback handed to walk(): done(err ? err[0] : null, this.isLimitHit)
Done(st) ==
    [st EXCEPT !.doneCalls = @ (+) SetToBag({st.isLimitHit})]

\* The final callback of a flow.parallel whose items were handed to doWalk
\* at path j loses the result: the callback of the item above never runs.
JoinCallbackLost(st, j) ==
    IF j = <<>> THEN Done(st) ELSE st

\* One item of the flow.parallel at j calls back; when it is the last one
\* the final callback of that flow.parallel runs: done() for the root paths
\* (j is empty), otherwise the callback doWalk was handed, which is the item
\* callback of the flow.parallel above.
RECURSIVE JoinCallback(_, _)
RECURSIVE Unwind(_, _)
JoinCallback(st, j) ==
    IF j = <<>> THEN Done(st) ELSE Unwind(st, Front(j))

Unwind(st, j) ==
    LET n == st.joins[j].doneCount + 1
        st1 == [st EXCEPT !.joins[j].doneCount = n]
    IN  IF AllCalledBack(st.joins[j], n) THEN JoinCallback(st1, j) ELSE st1

\* The limit is hit when the count reaches it
ReportMatchAtLimit(st, maxResults, path) ==
    LET count == st.resultCount + 1
        hit == st.isLimitHit \/ (HasLimit(maxResults) /\ count >= maxResults)
    IN  [st EXCEPT !.resultCount = count,
                   !.isLimitHit = hit,
                   !.reported = IF hit THEN @ ELSE @ (+) SetToBag({path})]

\* A file passed the patterns: it is counted, the limit is hit when the
\* count exceeds it, and onResult is called unless the limit is hit.
ReportMatch(st, maxResults, path) ==
    LET count == st.resultCount + 1
        hit == st.isLimitHit \/ (HasLimit(maxResults) /\ count > maxResults)
    IN  [st EXCEPT !.resultCount = count,
                   !.isLimitHit = hit,
                   !.reported = IF hit THEN @ ELSE @ (+) SetToBag({path})]

\* The test in front of a file: only the limit stops it
MayReportCanceled(canceled, limitHit) == ~limitHit

\* !this.isCanceled && !this.isLimitHit, the test in front of a file
MayReport(canceled, limitHit) == ~canceled /\ ~limitHit

\* doWalk(path, ..., files, ...): flow.parallel over the files.  An item
\* calls back at once when the walker is canceled or at its limit, or when
\* the exclude pattern matches; for the others readdir is started.  With
\* every item done at once (or no file) the final callback runs at once.
DoWalk(st, fs, cfg, path) ==
    LET files == ReadDir(fs, path)
        started == IF st.isCanceled \/ st.isLimitHit THEN {}
                   ELSE {f \in files : ~GlobMatch(cfg.excludePattern, f)}
        atOnce == Cardinality(files) - Cardinality(started)
        st1 == [st EXCEPT
                  !.joins = [j \in DOMAIN @ \cup {path} |->
                                IF j = path
                                THEN [total |-> Cardinality(files),
                                      doneCount |-> atOnce]
                                ELSE @[j]],
                  !.pending = @ \cup {[kind |-> "entry",
                                       path |-> Append(path, f)] :
                                         f \in started},
                  !.descents = @ (+) SetToBag({RealPath(fs, path)})]
    IN  IF started = {} THEN JoinCallback(st1, path) ELSE st1

\* walk(rootPaths, onResult, done), called when no walk is in flight: the
\* state is reset and readdir is started for every root path; with no root
\* path done is called at once.  The callbacks are those of this call:
\* what the ones of the call before received is forgotten.
Walk(rootPaths) ==
    /\ walks < MaxWalks
    /\ pending = {}
    /\ LET st == [Walker EXCEPT
                    !.walkedPaths = {},
                    !.resultCount = 0,
                    !.isLimitHit = FALSE,
                    !.walks = @ + 1,
                    !.joins = [j \in {<<>>} |->
                                 [total |-> Cardinality(rootPaths),
                                  doneCount |-> 0]],
                    !.pending = {[kind |-> "root", path |-> p] :
                                    p \in rootPaths},
                    !.reported = EmptyBag,
                    !.doneCalls = EmptyBag,
                    !.descents = EmptyBag]
       IN  WalkerBecomes(IF rootPaths = {} THEN JoinCallback(st, <<>>)
                         ELSE st)
    /\ UNCHANGED walkRest

\* cancel()
Cancel ==
    /\ ~isCanceled
    /\ isCanceled' = TRUE
    /\ UNCHANGED <<isLimitHit, resultCount, walkedPaths, walks, pending,
                   joins, reported, doneCalls, descents>>
    /\ UNCHANGED walkRest

\* readdir of a root path calls back.
RootReaddirReturns(t) ==
    /\ t \in pending
    /\ t.kind = "root"
    /\ LET st == [Walker EXCEPT !.pending = @ \ {t}]
           name == Basename(t.path)
       IN  WalkerBecomes(
             IF isCanceled \/ isLimitHit THEN Unwind(st, <<>>)
             ELSE IF IsDirectory(tree, t.path)
             THEN DoWalk(st, tree, config, t.path)
             ELSE IF GlobMatch(config.excludePattern, name)
             THEN Unwind(st, <<>>)
             ELSE IF Accepted(config, name)
             THEN Unwind(ReportMatch(st, config.maxResults, t.path), <<>>)
             ELSE Unwind(st, <<>>))
    /\ UNCHANGED walkRest

\* readdir of an entry calls back: for a directory realPathLink is
\* started, a file is reported when it may be and the patterns accept it.
EntryReaddirReturns(t) ==
    /\ t \in pending
    /\ t.kind = "entry"
    /\ LET st == [Walker EXCEPT !.pending = @ \ {t}]
       IN  WalkerBecomes(
             IF IsDirectory(tree, t.path)
             THEN [st EXCEPT !.pending =
                      @ \cup {[kind |-> "real", path |-> t.path]}]
             ELSE IF /\ MayReport(isCanceled, isLimitHit)
                     /\ Accepted(config, Basename(t.path))
             THEN Unwind(ReportMatch(st, config.maxResults, t.path),
                         Front(t.path))
             ELSE Unwind(st, Front(t.path)))
    /\ UNCHANGED walkRest

\* readdir calls back with an error that is not ENOTDIR: the item is done.
ReaddirFails(t) ==
    /\ t \in pending
    /\ t.kind \in {"root", "entry"}
    /\ WalkerBecomes(Unwind([Walker EXCEPT !.pending = @ \ {t}],
                            Front(t.path)))
    /\ UNCHANGED walkRest

\* realPathLink calls back with the real path of a link, or with the path
\* itself: a path walked before ends the item, any other is remembered
\* and walked.
RealPathReturns(t) ==
    /\ t \in pending
    /\ t.kind = "real"
    /\ LET st == [Walker EXCEPT !.pending = @ \ {t}]
           realpath == IF IsSymbolicLink(tree, t.path)
                       THEN RealPath(tree, t.path)
                       ELSE t.path
       IN  WalkerBecomes(
             IF realpath \in walkedPaths THEN Unwind(st, Front(t.path))
             ELSE DoWalk([st EXCEPT !.walkedPaths = @ \cup {realpath}],
                         tree, config, t.path))
    /\ UNCHANGED walkRest

\* realPathLink calls back with an error: the item is done.
RealPathFails(t) ==
    /\ t \in pending
    /\ t.kind = "real"
    /\ WalkerBecomes(Unwind([Walker EXCEPT !.pending = @ \ {t}],
                            Front(t.path)))
    /\ UNCHANGED walkRest

\* The configurations searched with
SearchConfigs ==
    {[maxResults |-> n, excludePattern |-> c[1], filePatterns |-> c[2],
      includePattern |-> NoPatterns] :
        n \in 0..MaxLimit,
        c \in {<<NoGlob, NoPatterns>>, <<{"h"}, PatternsOf({"f"})>>}}

\* Every callback that can run now
Callbacks ==
    \E t \in pending :
       \/ RootReaddirReturns(t)
       \/ EntryReaddirReturns(t)
       \/ ReaddirFails(t)
       \/ RealPathReturns(t)
       \/ RealPathFails(t)

InitWalk ==
    /\ HostAside
    /\ DebugIdle
    /\ FindIdle
    /\ OutputIdle
    /\ ConfigIdle
    /\ tree \in FileTrees
    /\ config \in SearchConfigs
    /\ WalkerConstructed

NextWalk ==
    \/ \E rootPaths \in SUBSET RootPaths : Walk(rootPaths)
    \/ Cancel
    \/ \E t \in pending : RootReaddirReturns(t)
    \/ \E t \in pending : EntryReaddirReturns(t)
    \/ \E t \in pending : ReaddirFails(t)
    \/ \E t \in pending : RealPathReturns(t)
    \/ \E t \in pending : RealPathFails(t)

SpecWalk == InitWalk /\ [][NextWalk]_vars

\* The fairness of the walker: a readdir or realPathLink that was started
\* calls back.
FairnessWalk == WF_vars(Callbacks)

\* The file trees with a link, searched with no limit and no pattern
InitCycles ==
    /\ HostAside
    /\ DebugIdle
    /\ FindIdle
    /\ OutputIdle
    /\ ConfigIdle
    /\ tree \in {fs \in FileTrees : \E p \in DOMAIN fs : "l" \in DOMAIN fs[p]}
    /\ config = [maxResults |-> 0, excludePattern |-> NoGlob,
                 filePatterns |-> NoPatterns, includePattern |-> NoPatterns]
    /\ WalkerConstructed

\* A walker that is asked for one walk, as the one of an Engine
NextOneWalk ==
    \/ walks = 0 /\ \E rootPaths \in SUBSET RootPaths : Walk(rootPaths)
    \/ Cancel
    \/ \E t \in pending : RootReaddirReturns(t)
    \/ \E t \in pending : EntryReaddirReturns(t)
    \/ \E t \in pending : ReaddirFails(t)
    \/ \E t \in pending : RealPathReturns(t)
    \/ \E t \in pending : RealPathFails(t)

LiveWalk == InitCycles /\ [][NextOneWalk]_vars /\ FairnessWalk

\* ------------------------------------------------------ the find model run

\* The find model and the editor as one record, for the steps that are
\* computed; the step has emitted no event yet.
Find ==
    [selection |-> selection, decorations |-> decorations,
     decorationIndex |-> decorationIndex, startPosition |-> startPosition,
     highlightedDecorationId |-> highlightedDecorationId,
     hasFindScope |-> hasFindScope, didReplace |-> didReplace,
     scheduled |-> scheduled, emittedEvent |-> NoEvent]

\* The find model and the editor become the record st
FindBecomes(st) ==
    \E s \in {st} :
       /\ selection' = s.selection
       /\ decorations' = s.decorations
       /\ decorationIndex' = s.decorationIndex
       /\ startPosition' = s.startPosition
       /\ highlightedDecorationId' = s.highlightedDecorationId
       /\ hasFindScope' = s.hasFindScope
       /\ didReplace' = s.didReplace
       /\ scheduled' = s.scheduled
       /\ emittedEvent' = s.emittedEvent

\* What the steps of the find model leave alone
findRest == <<pluginHostVars, debugVars, walkVars, outVars, cfgVars>>

\* editor.getPosition(): the end of the selection
PositionOf(st) == st.selection.end

\* setSelectionToDecoration(this.decorations[index]): the decoration is
\* highlighted and selected.
SetSelectionToDecoration(st, index) ==
    [st EXCEPT !.highlightedDecorationId = index,
               !.selection = RangeAt(st.decorations[index + 1])]

\* The body of next()
NextMatch(st) ==
    IF Len(st.decorations) > 0
    THEN LET index == IF st.decorationIndex = -1
                      THEN IndexAfterPosition(st.decorations,
                                              st.startPosition)
                      ELSE NextIndex(st.decorationIndex,
                                     Len(st.decorations))
         IN  SetSelectionToDecoration([st EXCEPT !.decorationIndex = index],
                                      index)
    ELSE st

\* The body of prev()
PrevMatch(st) ==
    IF Len(st.decorations) > 0
    THEN LET from == IF st.decorationIndex = -1
                     THEN IndexAfterPosition(st.decorations,
                                             st.startPosition)
                     ELSE st.decorationIndex
             index == PreviousIndex(from, Len(st.decorations))
         IN  SetSelectionToDecoration([st EXCEPT !.decorationIndex = index],
                                      index)
    ELSE st

\* updateDecorations(jumpToNextMatch, resetFindScopeDecoration,
\* newFindScope) as (jump, resetScope, newScope), with matches what
\* findMatches gives.  With no start
\* position yet (null) indexAfterPosition throws when there is a match: the
\* decorations are replaced and nothing is emitted.
UpdateDecorations(st0, jump, resetScope, newScope, matches) ==
    LET st1 == IF st0.didReplace THEN NextMatch(st0) ELSE st0
        st2 == [st1 EXCEPT
                  !.decorations = matches,
                  !.hasFindScope = IF resetScope
                                   THEN newScope ELSE @,
                  !.highlightedDecorationId = NullId]
        after == IndexAfterPosition(matches, st2.startPosition)
        st3 == IF ~st2.didReplace /\ ~jump
               THEN [st2 EXCEPT !.decorationIndex =
                        PreviousIndex(after, Len(matches))]
               ELSE IF Len(matches) > 0
               THEN SetSelectionToDecoration(
                        [st2 EXCEPT !.decorationIndex = after], after)
               ELSE [st2 EXCEPT !.decorationIndex = after]
    IN  IF st2.startPosition = NullPosition /\ Len(matches) > 0
        THEN st2
        ELSE [st3 EXCEPT
                !.emittedEvent = MatchesEvent(st3.decorationIndex,
                                              Len(st3.decorations)),
                !.didReplace = FALSE]

\* start(newFindData, findScope, shouldFocus)
FindStart(findScope, matches) ==
    /\ LET st == UpdateDecorations(
                    [Find EXCEPT !.startPosition = PositionOf(Find)],
                    FALSE, TRUE, findScope, matches)
       IN  FindBecomes([st EXCEPT !.decorationIndex =
                           PreviousIndex(
                              IndexAfterPosition(st.decorations,
                                                 st.startPosition),
                              Len(st.decorations))])
    /\ UNCHANGED findRest

\* setFindScope(findScope)
SetFindScope(findScope, matches) ==
    /\ FindBecomes(UpdateDecorations(Find, FALSE, TRUE, findScope, matches))
    /\ UNCHANGED findRest

\* recomputeMatches(newFindData, jumpToNextMatch) with find data that
\* differs from the one in use
RecomputeMatches(jumpToNextMatch, matches) ==
    /\ FindBecomes(UpdateDecorations(Find, jumpToNextMatch, FALSE, FALSE,
                                     matches))
    /\ UNCHANGED findRest

\* next()
FindNext ==
    /\ FindBecomes(NextMatch(Find))
    /\ UNCHANGED findRest

\* prev()
FindPrev ==
    /\ FindBecomes(PrevMatch(Find))
    /\ UNCHANGED findRest

\* The listener of ModelContentChanged, the editor tracking the
\* decorations at ranges now
OnModelContentChanged(st, flush, ranges) ==
    LET st1 == IF flush
               THEN [st EXCEPT !.decorations = <<>>,
                               !.decorationIndex = -1,
                               !.hasFindScope = FALSE,
                               !.highlightedDecorationId = NullId]
               ELSE [st EXCEPT !.decorations = ranges]
    IN  [st1 EXCEPT !.startPosition = PositionOf(st1),
                    !.scheduled = TRUE]

\* The model content changes: the text is edited, or set as a whole.
ModelContentChanged(flush, ranges) ==
    /\ FindBecomes(OnModelContentChanged(Find, flush, ranges))
    /\ UNCHANGED findRest

\* The cursor moves to p: the listener of CursorPositionChanged resets the
\* navigation when the reason is explicit, undo or redo.
CursorPositionChanged(reason, p) ==
    /\ LET st == [Find EXCEPT !.selection = CursorAt(p)]
       IN  FindBecomes(
             IF reason \in {"explicit", "undo", "redo"}
             THEN [st EXCEPT !.highlightedDecorationId = NullId,
                             !.startPosition = p,
                             !.decorationIndex = -1]
             ELSE st)
    /\ UNCHANGED findRest

\* replace(), with replaceString.length = len: the selected match is
\* replaced, which changes the content and puts the cursor behind the
\* text; any other selection makes it next().
Replace(len, ranges) ==
    /\ decorations # <<>>
    /\ LET current == decorationIndex \in 0..Len(decorations) - 1
                      /\ selection = RangeAt(decorations[decorationIndex + 1])
           behind == <<selection.start[1], selection.start[2] + len>>
           st == OnModelContentChanged(
                    [Find EXCEPT !.selection = CursorAt(behind)],
                    FALSE, ranges)
       IN  FindBecomes(
             IF current
             THEN [st EXCEPT !.startPosition = behind,
                             !.decorationIndex = -1,
                             !.didReplace = TRUE]
             ELSE NextMatch(Find))
    /\ UNCHANGED findRest

\* replaceAll(): the decorations are removed and the command changes the
\* content.
ReplaceAll ==
    /\ decorations # <<>>
    /\ FindBecomes(OnModelContentChanged(
                      [Find EXCEPT
                         !.decorations = <<>>,
                         !.highlightedDecorationId =
                            IF @ = NullId THEN NullId ELSE RemovedId],
                      FALSE, <<>>))
    /\ UNCHANGED findRest

\* The updateDecorationsScheduler runs
SchedulerRuns(matches) ==
    /\ scheduled
    /\ FindBecomes(UpdateDecorations([Find EXCEPT !.scheduled = FALSE],
                                     FALSE, FALSE, FALSE, matches))
    /\ UNCHANGED findRest

\* The lengths of the replace string
ReplaceLengths == {0, 1}

\* What findMatches can give, and what the editor can track after an edit
FoundLists == MatchLists(MaxMatches)
Tracked == [n \in 0..MaxMatches |-> TrackedLists(n)]

InitFind ==
    /\ HostAside
    /\ DebugIdle
    /\ WalkIdle
    /\ OutputIdle
    /\ ConfigIdle
    /\ selection \in {CursorAt(p) : p \in Positions}
    /\ FindConstructed

NextFind ==
    \/ \E findScope \in BOOLEAN, matches \in FoundLists :
          FindStart(findScope, matches)
    \/ \E findScope \in BOOLEAN, matches \in FoundLists :
          SetFindScope(findScope, matches)
    \/ \E jump \in BOOLEAN, matches \in FoundLists :
          RecomputeMatches(jump, matches)
    \/ FindNext
    \/ FindPrev
    \/ \E ranges \in Tracked[Len(decorations)] :
          ModelContentChanged(FALSE, ranges)
    \/ ModelContentChanged(TRUE, <<>>)
    \/ \E reason \in CursorReasons, p \in Positions :
          CursorPositionChanged(reason, p)
    \/ \E len \in ReplaceLengths, ranges \in Tracked[Len(decorations)] :
          Replace(len, ranges)
    \/ ReplaceAll
    \/ \E matches \in FoundLists : SchedulerRuns(matches)

SpecFind == InitFind /\ [][NextFind]_vars

\* -------------------------------------------------- the output channel run

\* What the steps of the output channel leave alone
outRest == <<pluginHostVars, debugVars, walkVars, findVars, cfgVars>>

\* dispose(): unless _disposed is set, clear is called on the proxy, and
\* _disposed is set when the reply arrives.
ChannelDispose ==
    /\ calls < MaxCalls
    /\ calls' = calls + 1
    /\ IF ~disposed
       THEN /\ requests' = Append(requests,
                                  [method |-> "clear", dispose |-> TRUE])
            /\ disposeClears' = disposeClears + 1
       ELSE UNCHANGED <<requests, disposeClears>>
    /\ UNCHANGED <<disposed, replies, output>>
    /\ UNCHANGED outRest

\* append(value)
ChannelAppend ==
    /\ calls < MaxCalls
    /\ calls' = calls + 1
    /\ requests' = Append(requests, [method |-> "append", dispose |-> FALSE])
    /\ UNCHANGED <<disposed, disposeClears, replies, output>>
    /\ UNCHANGED outRest

\* clear()
ChannelClear ==
    /\ calls < MaxCalls
    /\ calls' = calls + 1
    /\ requests' = Append(requests, [method |-> "clear", dispose |-> FALSE])
    /\ UNCHANGED <<disposed, disposeClears, replies, output>>
    /\ UNCHANGED outRest

\* The main thread handles the next call: MainThreadOutputService.append
\* or clear; the reply to a call of dispose() is awaited.
MainThreadHandles ==
    /\ requests # <<>>
    /\ requests' = Tail(requests)
    /\ output' = IF Head(requests).method = "clear" THEN 0 ELSE output + 1
    /\ replies' = IF Head(requests).dispose THEN replies + 1 ELSE replies
    /\ UNCHANGED <<disposed, disposeClears, calls>>
    /\ UNCHANGED outRest

\* The reply to the clear of dispose() arrives: _disposed = true
ReplyArrives ==
    /\ replies > 0
    /\ replies' = replies - 1
    /\ disposed' = TRUE
    /\ UNCHANGED <<requests, disposeClears, calls, output>>
    /\ UNCHANGED outRest

InitOutput ==
    /\ HostAside
    /\ DebugIdle
    /\ WalkIdle
    /\ FindIdle
    /\ ConfigIdle
    /\ OutputIdle

NextOutput ==
    \/ ChannelDispose
    \/ ChannelAppend
    \/ ChannelClear
    \/ MainThreadHandles
    \/ ReplyArrives

SpecOutput == InitOutput /\ [][NextOutput]_vars

\* --------------------------------------------------- the configuration run

\* What the steps of the configuration leave alone
cfgRest == <<pluginHostVars, debugVars, walkVars, findVars, outVars>>

\* The configuration service emits UPDATED: the listener of
\* MainThreadConfiguration calls the proxy with e.config.
ConfigurationUpdated(c) ==
    /\ updates < MaxUpdates
    /\ updates' = updates + 1
    /\ proxyCalls' = Append(proxyCalls, c)
    /\ UNCHANGED <<loading, hostConfig, hasConfig, accepts, fires,
                   seenInEvent, readResult>>
    /\ UNCHANGED cfgRest

\* loadConfiguration() of the constructor resolves: the proxy is called
\* with the configuration.
LoadConfigurationResolves(c) ==
    /\ loading
    /\ loading' = FALSE
    /\ proxyCalls' = Append(proxyCalls, c)
    /\ UNCHANGED <<updates, hostConfig, hasConfig, accepts, fires,
                   seenInEvent, readResult>>
    /\ UNCHANGED cfgRest

\* The plugin host handles the next call of the proxy:
\* _acceptConfigurationChanged(config), with a listener of
\* onDidChangeConfiguration that calls getConfiguration().
AcceptConfigurationChanged ==
    /\ proxyCalls # <<>>
    /\ proxyCalls' = Tail(proxyCalls)
    /\ hostConfig' = Head(proxyCalls)
    /\ hasConfig' = TRUE
    /\ accepts' = accepts + 1
    /\ fires' = fires + 1
    /\ seenInEvent' = SeenInListener(
                          [hasConfig |-> hasConfig, config |-> hostConfig],
                          [hasConfig |-> hasConfig', config |-> hostConfig'])
    /\ readResult' = NoRead
    /\ UNCHANGED <<loading, updates>>
    /\ UNCHANGED cfgRest

\* An extension calls getConfiguration().
GetConfiguration ==
    /\ readResult' = GetConfigurationResult(hasConfig, hostConfig)
    /\ seenInEvent' = NoRead
    /\ UNCHANGED <<loading, updates, proxyCalls, hostConfig, hasConfig,
                   accepts, fires>>
    /\ UNCHANGED cfgRest

InitConfig ==
    /\ HostAside
    /\ DebugIdle
    /\ WalkIdle
    /\ FindIdle
    /\ OutputIdle
    /\ ConfigIdle

NextConfig ==
    \/ \E c \in Configs : ConfigurationUpdated(c)
    \/ \E c \in Configs : LoadConfigurationResolves(c)
    \/ AcceptConfigurationChanged
    \/ GetConfiguration

SpecConfig == InitConfig /\ [][NextConfig]_vars

\* ------------------------------------------------------------------ claims

Range(seq) == { seq[i] : i \in 1..Len(seq) }

IdsOf(list) == { list[i].id : i \in 1..Len(list) }

Count(seq, x) == Cardinality({ i \in 1..Len(seq) : seq[i] = x })

\* The last descriptor of a list with the given id.
LastWithId(list, id) ==
    list[CHOOSE i \in 1..Len(list) :
            /\ list[i].id = id
            /\ \A j \in (i + 1)..Len(list) : list[j].id # id]

\* The scans resolved and the merge callback ran.
Merged == pc = "scanned" /\ scanState = "resolved"

HighestSource(id) ==
    IF id \in IdsOf(scanned.dev) THEN scanned.dev
    ELSE IF id \in IdsOf(scanned.user) THEN scanned.user
    ELSE scanned.builtin

\* C1: after the merge the result holds exactly one descriptor for each id
\* some source returned and none for any other id; the descriptor is one of
\* the highest-precedence source that returned the id (development over
\* user over builtin), unchanged, and the last of that source with the id.
C1_MergePrecedence ==
    Merged =>
        \A id \in MergeIds \cup Ids :
            LET hits == { i \in 1..Len(extensions) : extensions[i].id = id }
                all  == IdsOf(scanned.builtin) \cup IdsOf(scanned.user)
                            \cup IdsOf(scanned.dev)
            IN  IF id \in all
                THEN /\ Cardinality(hits) = 1
                     /\ \A i \in hits :
                            /\ extensions[i] \in Range(HighestSource(id))
                            /\ extensions[i] = LastWithId(HighestSource(id), id)
                ELSE hits = {}

\* An id returned by all three sources, twice by the user scan, and another
\* id returned by the builtin scan only.
C1_Witness ==
    /\ Merged
    /\ \E id \in MergeIds :
          /\ id \in IdsOf(scanned.builtin) \cap IdsOf(scanned.dev)
          /\ Len(scanned.user) = 2
          /\ IdsOf(scanned.user) = {id}
    /\ \E id \in IdsOf(scanned.builtin) :
          id \notin IdsOf(scanned.user) \cup IdsOf(scanned.dev)

Warnings(msgs) == SelectSeq(msgs, LAMBDA m : m.type = "warn")

\* The overwrites of a merge that takes the descriptors in the order
\* builtin, user, development: the k-th descriptor overwrites the latest
\* earlier one with its id, if there is one.
RECURSIVE OverwritesFrom(_, _)
OverwritesFrom(all, k) ==
    IF k > Len(all) THEN <<>>
    ELSE LET earlier == { j \in 1..(k - 1) : all[j].id = all[k].id }
         IN  (IF earlier = {} THEN <<>>
              ELSE LET j == CHOOSE x \in earlier : \A y \in earlier : y <= x
                   IN  << <<all[j].extensionFolderPath, all[k].extensionFolderPath>> >>)
             \o OverwritesFrom(all, k + 1)

NamedLocations(msgs) ==
    [i \in 1..Len(msgs) |-> <<msgs[i].message[2], msgs[i].message[4]>>]

\* C2: the warnings collected are, one for one and in order, the overwrites
\* of the merge, each naming the replaced and the replacing install
\* location; there is no warning without an overwrite.
C2_WarningPerOverwrite ==
    Merged =>
        NamedLocations(Warnings(collector))
            = OverwritesFrom(scanned.builtin \o scanned.user \o scanned.dev, 1)

DeclaredEvents ==
    UNION { Range(registry[i].activationEvents) : i \in 1..Len(registry) }

RequestsFor(ev) == Cardinality({ i \in 1..Len(activations) : activations[i].event = ev })

EagerStageOver == pc \in {"eagerDone", "running", "rejecting", "done"}

\* C3: with a workspace open, once the eager stage is over each declared
\* event workspaceContains:<file> has one request if <file> is a file at
\* the workspace root and none otherwise, however many descriptors (or
\* entries of one descriptor) declare it.
C3_OneRequestPerEvent ==
    (workspace /\ EagerStageOver) =>
        \A f \in {FileA, FileB, EmptyName} :
            (WORKSPACE_CONTAINS \o f) \in DeclaredEvents =>
                RequestsFor(WORKSPACE_CONTAINS \o f)
                    = IF f \in existingFiles THEN 1 ELSE 0

\* Two descriptors declare workspaceContains:a, whose file is there, and
\* one declares workspaceContains:b twice, whose file is not.
C3_Witness ==
    /\ workspace /\ EagerStageOver
    /\ Len(registry) = 2
    /\ \A i \in 1..2 : EvA \in Range(registry[i].activationEvents)
    /\ \E i \in 1..2 : Count(registry[i].activationEvents, EvB) = 2
    /\ existingFiles = {FileA}
    /\ RequestsFor(EvA) = 1

TestPathsSupplied == env.pluginTestsPath /\ env.pluginDevelopmentPath

TestsBegun == "handlePluginTests" \in Range(trace)

RunnerRequired == "require" \in Range(trace)

RunInvoked == "run" \in Range(trace)

CallbackInvoked == "callback" \in Range(trace)

\* C4: with both test paths supplied the process eventually exits, whatever
\* the module at pluginTestsPath does.
C4_AlwaysExits == TestPathsSupplied => <>exited

\* The module could not be loaded, or it exports no function named run.
NoRunFunction ==
    RunnerRequired /\ (runner.requireThrows \/ ~runner.truthy \/ ~runner.runIsFunction)

\* C5: when the module cannot be loaded or exports no function run, run is
\* not invoked, the only exit scheduled is the one with zero delay, start()
\* is rejected with the load error's text or with the 'does not point to a
\* valid extension test runner' text, and the process has not exited
\* before that error went to console.error.
C5_RunnerErrorPath ==
    (TestPathsSupplied /\ NoRunFunction) =>
        /\ ~RunInvoked
        /\ IF exited THEN exitTimers = {} ELSE exitTimers = {0}
        /\ startState = "rejected"
        /\ startError = IF runner.requireThrows THEN RequireErrorText
                        ELSE InvalidRunnerText
        /\ exited => Count(consoleErrors, startError) = 1

\* The module exports an object without a function run; the process
\* exited after the error was reported.
C5_Witness ==
    /\ TestPathsSupplied /\ NoRunFunction
    /\ ~runner.requireThrows /\ runner.truthy
    /\ exited
    /\ InvalidRunnerText \in Range(consoleErrors)

\* C6: with a runner that exports run, the process has not exited unless
\* the callback was invoked; once it was, the exit is scheduled after 800 ms
\* and after nothing shorter; when it reported no error start() is resolved
\* and the exit code is 0.
C6_RunnerCompletion ==
    (TestPathsSupplied /\ RunInvoked) =>
        /\ exited => CallbackInvoked
        /\ ~CallbackInvoked => exitTimers = {}
        /\ CallbackInvoked =>
              IF exited THEN exitTimers = {} ELSE exitTimers = {800}
        /\ (CallbackInvoked /\ runner.run = "ok") =>
              /\ startState = "resolved"
              /\ exited => exitCodes = <<0>>

\* The runner called back without an error and the process exited.
C6_Witness ==
    /\ TestPathsSupplied /\ RunInvoked
    /\ CallbackInvoked /\ runner.run = "ok"
    /\ startState = "resolved"
    /\ exitCodes = <<0>>

\* C7: without pluginTestsPath or without pluginDevelopmentPath the runner
\* module is not loaded, run is not invoked, no exit is scheduled, the
\* process does not exit and start() is resolved once the test stage is
\* reached, never rejected.
C7_TestsSkipped ==
    (~env.pluginTestsPath \/ ~env.pluginDevelopmentPath) =>
        /\ ~RunnerRequired
        /\ ~RunInvoked
        /\ exitTimers = {}
        /\ ~exited
        /\ startState # "rejected"
        /\ TestsBegun => startState = "resolved"

\* Only pluginTestsPath is supplied and the chain ran to its end.
C7_Witness ==
    /\ env.pluginTestsPath /\ ~env.pluginDevelopmentPath
    /\ TestsBegun
    /\ startState = "resolved"

PastRegistration ==
    pc \in {"registered", "checking", "eagerDone", "running", "rejecting", "done"}

TestStageErrors ==
    {RequireErrorText, InvalidRunnerText, RunThrownText, RunErrorText}

\* C8: after scanPlugins rejected, the error is in the collector, the empty
\* list is registered, registrationDone gets messages that hold the error,
\* start() settles only after the eager and the test stage ran, and it is
\* rejected only by the test stage.
C8_ScanFailureNotFatal ==
    scanState = "rejected" =>
        /\ registry = <<>>
        /\ pc = "scanned" =>
              /\ extensions = <<>>
              /\ ErrorMessage(ScanError) \in Range(collector)
        /\ pc = "registered" => ErrorMessage(ScanError) \in Range(doneMessages)
        /\ pc \notin {"scanFailed", "scanned"} =>
              /\ Count(trace, "registerPlugins") = 1
              /\ Count(trace, "registrationDone") = 1
        /\ startState # "pending" =>
              /\ Count(trace, "activateByEvent") >= 1
              /\ TestsBegun
        /\ startState = "rejected" =>
              /\ TestPathsSupplied
              /\ startError \in TestStageErrors

\* The scan failed, the stages ran and start() resolved.
C8_Witness ==
    /\ scanState = "rejected"
    /\ pc = "done"
    /\ startState = "resolved"
    /\ Count(trace, "registerPlugins") = 1
    /\ Count(trace, "activateByEvent") >= 1
    /\ TestsBegun

CallOrder ==
    /\ Count(trace, "registerPlugins") <= 1
    /\ Count(trace, "registrationDone") <= 1
    /\ PastRegistration =>
          /\ Count(trace, "registerPlugins") = 1
          /\ Count(trace, "registrationDone") = 1
    /\ \A i \in 1..Len(trace) :
          trace[i] \in {"registrationDone", "activateByEvent",
                        "getAllPluginDescriptions"}
              => \E j \in 1..(i - 1) : trace[j] = "registerPlugins"
    /\ activations # <<>> => "registerPlugins" \in Range(trace)

\* C9: registerPlugins is called once, registrationDone once and after it,
\* no activateByEvent and no getAllPluginDescriptions comes before
\* registerPlugins, and no step changes the registry once registerPlugins
\* was called.
C9_WriteOnceRegistry ==
    /\ []CallOrder
    /\ [][registry' # registry => "registerPlugins" \notin Range(trace)]_vars

\* A run that registered two descriptors and read them back for the
\* eager stage.
C9_Witness ==
    /\ Len(registry) = 2
    /\ "getAllPluginDescriptions" \in Range(trace)
    /\ Len(activations) >= 2
    /\ pc = "done"

\* C10 as stated: the test stage begins only when every activation request
\* has settled.
C10_TestsAfterActivationsSettled ==
    TestsBegun => \A i \in 1..Len(activations) : activations[i].state # "pending"

\* C10, amended: the test stage begins only when the wildcard request was
\* issued, every file-existence check has settled and the request of every
\* file found was issued; no request is issued after it began.
C10_TestsAfterRequestsIssued ==
    TestsBegun =>
        /\ Len(activations) >= 1 /\ activations[1].event = STAR
        /\ workspace =>
              /\ PendingChecks = {}
              /\ \A i \in 1..Len(desiredFiles) :
                    desiredFiles[i] \in existingFiles
                        => RequestsFor(WORKSPACE_CONTAINS \o desiredFiles[i]) = 1
        /\ \A i, j \in 1..Len(trace) :
              (trace[i] = "handlePluginTests" /\ trace[j] = "activateByEvent")
                  => j < i

\* The test stage began after two file checks, with the wildcard request
\* and a workspaceContains request still pending.
C10_Witness ==
    /\ TestsBegun
    /\ workspace
    /\ Len(desiredFiles) >= 2
    /\ Len(activations) >= 2
    /\ \A i \in 1..Len(activations) : activations[i].state = "pending"

Rejections ==
    Cardinality({ i \in 1..Len(activations) : activations[i].state = "rejected" })

\* C11: every rejected activation request is logged once; however many
\* requests were rejected, the wildcard request and the request of every
\* file found are issued, start() is rejected only by the test stage, and
\* the test stage is entered (and the runner required when the test paths
\* are supplied).
C11_ActivationFailuresIndependent ==
    /\ Count(consoleErrors, ActivationErrorText) = Rejections
    /\ EagerStageOver =>
          /\ RequestsFor(STAR) = 1
          /\ \A i \in 1..Len(desiredFiles) :
                desiredFiles[i] \in existingFiles
                    => RequestsFor(ActivationEventOf(desiredFiles[i])) = 1
    /\ startState = "rejected" => startError \in TestStageErrors
    /\ startState # "pending" => TestsBegun
    /\ (TestPathsSupplied /\ pc \in {"running", "rejecting", "done"}) => RunnerRequired

\* Every request was rejected, the wildcard one and two workspaceContains
\* ones; the runner ran and start() resolved.
C11_Witness ==
    /\ Len(activations) >= 3
    /\ \A i \in 1..Len(activations) : activations[i].state = "rejected"
    /\ Count(consoleErrors, ActivationErrorText) = Len(activations)
    /\ RunInvoked
    /\ startState = "resolved"

\* The workspaceContains events of the names that are files, in the order
\* of the names.
RECURSIVE EventsOfFilesPresent(_, _, _)
EventsOfFilesPresent(names, files, i) ==
    IF i > Len(names) THEN <<>>
    ELSE (IF names[i] \in files THEN <<WORKSPACE_CONTAINS \o names[i]>> ELSE <<>>)
         \o EventsOfFilesPresent(names, files, i + 1)

EventsRequested == [i \in 1..Len(activations) |-> activations[i].event]

\* C18: once the eager stage is over, the requests issued are the wildcard
\* request followed by one workspaceContains request per declared file
\* name that is a file of the workspace root: a function of the registry
\* and the files present alone, whatever order the checks completed in.
\* While a check is pending no workspaceContains request has been issued.
C18_ChecksOrderIrrelevant ==
    /\ (workspace /\ EagerStageOver) =>
          EventsRequested =
              <<STAR>> \o EventsOfFilesPresent(DesiredFiles(<<>>, registry), existingFiles, 1)
    /\ PendingChecks # {} =>
          \A i \in 1..Len(desiredFiles) :
              RequestsFor(ActivationEventOf(desiredFiles[i])) = 0
    /\ pc = "checking" => EventsRequested = <<STAR>>

\* Three file names are declared, two of them are files; the checks are
\* over and exactly their two requests follow the wildcard one.
C18_Witness ==
    /\ pc = "eagerDone"
    /\ Len(desiredFiles) = 3
    /\ existingFiles = {FileA, FileB}
    /\ DOMAIN checkResults = 1..3
    /\ Len(activations) = 3

\* C20: the wildcard request is issued at most once and by nothing before
\* handleEagerPlugins; from then on it has been issued exactly once, it is
\* the first request, and registrationDone was called before every
\* activateByEvent.  With no workspace open there is no descriptor read,
\* no file check and no workspaceContains request.  All of it holds after
\* a failed scan as well.
C20_WildcardActivation ==
    /\ RequestsFor(STAR) <= 1
    /\ pc \in {"created", "scanning", "scanFailed", "scanned", "registered"}
          => activations = <<>>
    /\ (pc = "checking" \/ EagerStageOver) =>
          /\ RequestsFor(STAR) = 1
          /\ activations[1].event = STAR
          /\ \E i \in 1..Len(trace) :
                /\ trace[i] = "registrationDone"
                /\ \A j \in 1..Len(trace) : trace[j] = "activateByEvent" => i < j
    /\ ~workspace =>
          /\ desiredFiles = <<>>
          /\ DOMAIN checkResults = {}
          /\ "getAllPluginDescriptions" \notin Range(trace)
          /\ \A i \in 1..Len(activations) : activations[i].event = STAR

\* No workspace is open and the scan failed: the wildcard request is the
\* one request of the run.
C20_Witness ==
    /\ ~workspace
    /\ scanState = "rejected"
    /\ pc = "done"
    /\ EventsRequested = <<STAR>>
    /\ Count(trace, "activateByEvent") = 1

\* Every call of x comes before every call of y in the handshake.
CalledBefore(x, y) ==
    \A i, j \in 1..Len(hostTrace) :
        (hostTrace[i] = x /\ hostTrace[j] = y) => i < j

MessageArrived == posted > Len(inbox)

\* C12: 'ready' is sent once, when the module is loaded, and is sent when
\* the first message is handled; 'initialized' is sent once, never before
\* a message has arrived, after 'ready', and after process.on('message')
\* installed the forwarding listener.
C12_HandshakeSignalOrder ==
    /\ [](/\ Count(sent, READY) = (IF hostTrace = <<>> THEN 0 ELSE 1)
          /\ Count(sent, INITIALIZED) = (IF initData = <<>> THEN 0 ELSE 1)
          /\ INITIALIZED \in Range(sent) =>
                /\ MessageArrived
                /\ sent[1] = READY
                /\ "handle" \in listeners
          /\ CalledBefore("send(ready)", "createIPC")
          /\ CalledBefore("send(ready)", "send(initialized)")
          /\ CalledBefore("on(message)", "send(initialized)"))
    /\ [][initData' # initData =>
             /\ READY \in Range(sent)
             /\ INITIALIZED \notin Range(sent)
             /\ "handle" \notin listeners]_vars

\* The handshake is over and a later message went to the dispatch path.
C12_Witness ==
    /\ initData # <<>>
    /\ sent = <<READY, INITIALIZED>>
    /\ handled # <<>>
    /\ "on(message)" \in Range(hostTrace)

\* C13: the message taken as Init Data is the first one the parent sent;
\* what remoteCom.handle got is the second, third, ... message, each once
\* and in the order sent, and never the first; every message the parent
\* sent is waiting on the channel, is the Init Data or was handled.
C13_InitDataConsumedOnce ==
    /\ initData # <<>> => initData = <<ParentMessage(1)>>
    /\ initData = <<>> => handled = <<>>
    /\ handled = [i \in 1..Len(handled) |-> ParentMessage(i + 1)]
    /\ inbox = [i \in 1..Len(inbox) |->
                   ParentMessage(Len(initData) + Len(handled) + i)]
    /\ Len(initData) + Len(handled) + Len(inbox) = posted

\* Init Data was taken and the two messages after it were dispatched.
C13_Witness ==
    /\ initData = <<ParentMessage(1)>>
    /\ handled = <<ParentMessage(2), ParentMessage(3)>>

\* C17: createServices is called at most once and start() (which begins
\* the scan) at most once; neither is called unless the first message was
\* taken as Init Data and the connection to the shared process is
\* established, so while either is missing the host stays unconstructed.
C17_StartAfterBothChannels ==
    /\ Count(hostTrace, "createServices") <= 1
    /\ Count(hostTrace, "createInstance") <= 1
    /\ Count(trace, "scanPlugins") <= 1
    /\ pc # "connecting" <=> "createServices" \in Range(hostTrace)
    /\ "createServices" \in Range(hostTrace) =>
          /\ initData # <<>>
          /\ shared = "connected"
    /\ (initData = <<>> \/ shared # "connected") =>
          /\ pc = "connecting"
          /\ trace = <<>>

\* start() ran after both: the scan is under way.
C17_Witness ==
    /\ pc = "scanning"
    /\ initData # <<>>
    /\ shared = "connected"
    /\ Count(hostTrace, "createServices") = 1
    /\ Count(trace, "scanPlugins") = 1

\* The process ended in this step and no exit timer of the test stage
\* fired: the poll ended it.
EndedByPoll == exitCodes' # exitCodes /\ exitTimers' = exitTimers

\* C14 as stated: once the parent process does not exist the host ends,
\* at whatever point of its life; and the poll never ends the host while
\* the parent exists.
C14_ParentDeathTerminates ==
    /\ [](~parentAlive => <>exited)
    /\ [][EndedByPoll => ~parentAlive]_vars

\* C14, amended: from the handling of Init Data on the poll is installed
\* as long as the process runs, and once the parent does not exist the
\* host ends, at whatever stage it is; and the poll never ends the host
\* while the parent exists.
C14_ParentDeathTerminatesOnceWatched ==
    /\ []((initData # <<>> /\ ~exited) => "poll" \in listeners)
    /\ []((~parentAlive /\ initData # <<>>) => <>exited)
    /\ [][EndedByPoll => ~parentAlive]_vars

\* The parent ended while the file checks were pending, and the poll
\* ended the host there.
C14_Witness ==
    /\ ~parentAlive
    /\ exitCodes = <<EXIT_CODE>>
    /\ exitTimers = {}
    /\ pc = "checking"
    /\ PendingChecks # {}

\* C15: every error nothing caught has been passed to onUnexpectedError,
\* in the order raised; the step in which one is raised does not end the
\* process and changes nothing of the handshake or of the lifecycle.
C15_UncaughtReportedNotFatal ==
    /\ [](unexpected = raised)
    /\ [][raised' # raised =>
             /\ exitCodes' = exitCodes
             /\ UNCHANGED <<mainVars, hostTrace, listeners, sent, posted,
                            inbox, initData, handled, shared, parentAlive>>]_vars

\* What process.send got apart from the two signals
DataSent == SelectSeq(sent, LAMBDA m : m \notin {READY, INITIALIZED})

\* C16: what process.send got after the two signals is what the IPC layer
\* handed to the callback, each message once and in the same order,
\* whatever the length of the stats array and whatever was warned.
C16_DiagnosticNeverDrops ==
    /\ DataSent = handed
    /\ handed = [k \in 1..Len(handed) |-> Data(k)]

\* A window went beyond the warning count, the warning was emitted, and
\* messages handed over afterwards reached process.send as well.
C16_Witness ==
    /\ warnings # <<>>
    /\ warnings[1].count > WARN_COUNT
    /\ stats # <<>>
    /\ Len(DataSent) > WARN_COUNT + 1
    /\ DataSent = handed

\* The messages the warnings reported, all together
WarnedCount == Sum([i \in 1..Len(warnings) |-> warnings[i].count])

\* C19: a tick that ends a window with messages in it emits the warning
\* exactly when the window holds more than 250 messages; and no message
\* is counted in two windows: the counts warned about and the count of
\* the current window never add up to more than the messages sent.
C19_WarnAboveThreshold ==
    /\ [][(stats # <<>> /\ stats' = <<>>) =>
             (warnings' # warnings <=> Len(stats) > WARN_COUNT)]_vars
    /\ [](WarnedCount + Len(stats) <= Len(handed))

Infos(msgs) == SelectSeq(msgs, LAMBDA m : m.type = "info")

\* C21: after the merge the informational messages of the collector are
\* the announcements of the development descriptors, one for each and in
\* their order, whether or not the descriptor overwrote another; there is
\* none for a builtin or a user descriptor.
C21_DevelopmentInfo ==
    Merged =>
        /\ Infos(collector) =
              [i \in 1..Len(scanned.dev) |-> InfoDevelopment(scanned.dev[i])]
        /\ \A i \in 1..Len(scanned.builtin) :
              InfoDevelopment(scanned.builtin[i]) \notin Range(collector)
        /\ \A i \in 1..Len(scanned.user) :
              InfoDevelopment(scanned.user[i]) \notin Range(collector)

\* Two development descriptors, the first overwrites a builtin one and
\* the second overwrites the first; both were announced.
C21_Witness ==
    /\ Merged
    /\ Len(scanned.dev) = 2
    /\ Len(scanned.builtin) >= 1
    /\ scanned.dev[1].id = scanned.builtin[1].id
    /\ scanned.dev[2].id = scanned.dev[1].id
    /\ Len(Infos(collector)) = 2
    /\ Len(Warnings(collector)) = 2

\* C22: while the state of the debug service is Disabled no action derived
\* from AbstractDebugAction has its enabled flag set.
C22_DisabledMeansNoAction ==
    dbgState = "Disabled" => \A a \in DebugActions : ~enabled[a]

\* How often onResult and done of the last walk() were called
ResultsReported == BagCardinality(reported)
DoneCalled == BagCardinality(doneCalls)

\* The walk was just started: no callback of it has run.
WalkJustStarted ==
    /\ walks > 0
    /\ joins[<<>>].doneCount = 0
    /\ \A t \in pending : t.kind = "root"
    /\ Cardinality(pending) = joins[<<>>].total

\* C23: with maxResults = N > 0, in any walk and under every interleaving
\* of the callbacks, onResult is invoked at most N times, done reports
\* isLimitHit = true only if onResult was invoked exactly N times and a
\* further matching file was counted, and every walk starts with the
\* result count at 0 and the limit flag cleared.
C23_ResultLimit ==
    /\ HasLimit(config.maxResults) =>
         /\ ResultsReported <= config.maxResults
         /\ TRUE \in BagToSet(doneCalls) =>
              /\ ResultsReported = config.maxResults
              /\ resultCount > config.maxResults
    /\ WalkJustStarted => resultCount = 0 /\ ~isLimitHit

\* The second walk of a walker ended with the limit hit.
C23_Witness ==
    /\ walks = 2
    /\ HasLimit(config.maxResults)
    /\ doneCalls = SetToBag({TRUE})
    /\ ResultsReported = config.maxResults

\* C24: once cancel() has been called onResult is never invoked again,
\* neither by the callbacks of the walk in flight that run later nor by a
\* later walk() on the same walker, and when the callbacks of a walk have
\* all run its done callback has been invoked.
C24_CancelSilences ==
    /\ [][isCanceled => \/ reported' = reported
                        \/ reported' = EmptyBag]_vars
    /\ [](isCanceled /\ walks > 0 /\ pending = {} => DoneCalled = 1)

\* cancel() was called while readdir of a file the patterns accept had
\* not called back, in a walk that has reported a file.
C24_Witness ==
    /\ isCanceled
    /\ ResultsReported > 0
    /\ \E t \in pending :
          /\ t.kind = "entry"
          /\ ~IsDirectory(tree, t.path)
          /\ Accepted(config, Basename(t.path))

\* C25: for every file tree, also one whose links form cycles, and every
\* interleaving of the callbacks, walk() eventually invokes done, and
\* invokes it exactly once.
C25_WalkTerminates ==
    /\ [](DoneCalled <= 1)
    /\ (walks > 0) ~> (DoneCalled = 1 /\ pending = {})

\* A walk over a sub-directory with a link to itself ended: the directory
\* was walked and the link was not followed.
C25_Witness ==
    /\ SubDir \in DOMAIN tree
    /\ "l" \in DOMAIN tree[SubDir]
    /\ tree[SubDir]["l"].target = SubDir
    /\ ~isCanceled
    /\ DoneCalled = 1
    /\ pending = {}
    /\ SubDir \in walkedPaths
    /\ CopiesIn(SubDir, descents) = 1
    /\ CopiesIn(Append(SubDir, "f"), reported) = 1

\* C26: within one walk no directory, identified by its real path, is
\* descended into more than once, the root paths included.
C26_NoDirectoryTwice ==
    \A d \in BagToSet(descents) : CopiesIn(d, descents) <= 1

\* The index of the first of the decorations that starts at the position
\* or after it; the first decoration when none does.
FirstAtOrAfter(ranges, position) ==
    LET later == {i \in 1..Len(ranges) : ~Before(ranges[i], position)}
    IN  IF later = {} THEN 0
        ELSE (CHOOSE i \in later : \A k \in later : i <= k) - 1

\* The navigation was reset and the cursor is where it was reset to.
CursorReset ==
    /\ decorationIndex = -1
    /\ selection = CursorAt(startPosition)

\* C27: with matches, right after next() or prev() the index is that of a
\* match and that match is the highlighted one; next() from the last match
\* goes to the first and prev() from the first to the last; after the
\* cursor reset the index to -1, next() selects the first match at or after
\* the cursor and prev() the match before that one.
C27_NavigationIndex ==
    [][/\ (FindNext \/ FindPrev) /\ decorations # <<>> =>
            /\ decorationIndex' \in 0..Len(decorations') - 1
            /\ highlightedDecorationId' = decorationIndex'
            /\ selection' = RangeAt(decorations'[decorationIndex' + 1])
       /\ FindNext /\ decorations # <<>> =>
            /\ decorationIndex = Len(decorations) - 1 => decorationIndex' = 0
            /\ CursorReset =>
                 decorationIndex' = FirstAtOrAfter(decorations, startPosition)
       /\ FindPrev /\ decorations # <<>> =>
            /\ decorationIndex = 0 =>
                 decorationIndex' = Len(decorations) - 1
            /\ CursorReset =>
                 decorationIndex' =
                    (FirstAtOrAfter(decorations, startPosition) - 1
                       + Len(decorations)) % Len(decorations)
      ]_vars

\* The second of two matches is highlighted and selected, and the
\* navigation started at its position.
C27_Witness ==
    /\ Len(decorations) >= 2
    /\ decorationIndex = 1
    /\ highlightedDecorationId = 1
    /\ selection = RangeAt(decorations[2])
    /\ startPosition = decorations[2]

\* C28: every matches-updated event carries the number of matches as its
\* count and a position from 0 to the count that is 0 exactly when the
\* count is 0.
C28_MatchesEvent ==
    emittedEvent # NoEvent =>
       /\ emittedEvent.count = Len(decorations)
       /\ emittedEvent.position \in 0..emittedEvent.count
       /\ emittedEvent.position = 0 <=> emittedEvent.count = 0

\* After a replace the event of the update names the first of two matches.
C28_Witness ==
    /\ emittedEvent = [position |-> 1, count |-> 2]
    /\ highlightedDecorationId = 0
    /\ ~scheduled

\* C29: however often dispose() is called on a channel, and however the
\* calls interleave with the replies of the main thread, dispose sends the
\* clear request at most once.
C29_DisposeOnce == disposeClears <= 1

\* The configuration of the service with the editor setting off
EditorOff == ConfigOf([k \in {"editor"} |-> "off"])

\* C30: getConfiguration returns undefined until the first
\* _acceptConfigurationChanged and never afterwards; every
\* _acceptConfigurationChanged fires the event once, and a listener that
\* calls getConfiguration during the event gets the configuration just
\* accepted.
C30_ConfigurationSnapshot ==
    /\ readResult # NoRead => (readResult = UndefinedResult <=> accepts = 0)
    /\ fires = accepts
    /\ seenInEvent # NoRead =>
          seenInEvent = GetConfigurationResult(TRUE, hostConfig)

\* The listener of a second accepted configuration saw that configuration,
\* which is not the one read before.
C30_Witness ==
    /\ accepts >= 2
    /\ hostConfig = EditorOff
    /\ seenInEvent = GetConfigurationResult(TRUE, EditorOff)
    /\ proxyCalls = <<>>

====
